---- MODULE Spec2Model ----
(***************************************************************************)
(* Model of the tool-calling dispatch loop of the media planning agent:    *)
(* ClaudeAgent.chat, ClaudeAgent._execute_tool, the tool wrappers          *)
(* (FunctionTool.execute / JsonTool.execute), the JSON encoding of tool    *)
(* results and the session log (SessionState.add_conversation_turn).       *)
(*                                                                         *)
(* chat is split at its blocking boundaries (the two LLM requests); what   *)
(* runs between two boundaries is one action.  The LLM and the tool bodies *)
(* are the environment: the LLM picks the content blocks of a response,    *)
(* and each tool body picks one of the outcomes in BodyOutcomes.           *)
(*                                                                         *)
(* Further state machines share the module: the tool registry of           *)
(* tools/base.py (SpecRegistry), the JSON tool registry with the functions *)
(* that obtain a registry (SpecJson), the strategic context of the session *)
(* state (SpecContext), the workspace and media plan tools (SpecTools),    *)
(* the resets of the agent and of its session (SpecSession), the agent's   *)
(* choice of schema version (SpecSchema), tools.base.execute_tool          *)
(* (SpecExecute) and the JSON type that Tool._python_type_to_json_type     *)
(* derives for a parameter annotation (SpecTypes).  Each specification     *)
(* leaves the variables of the others at their initial values.             *)
(***************************************************************************)
EXTENDS Naturals, Sequences, FiniteSets

\* ------------------------------------------------------------------ bounds
\* Largest number of content blocks in the first LLM response of a turn.
MaxBlocks == 3
\* Largest number of content blocks in the follow-up LLM response.
MaxFollowUp == 2
\* chat is called, and tool rounds are taken, only while the wire-level
\* history stays within this length.
MaxHistory == 6

\* ------------------------------------------------------- environment sets
\* Tool names the LLM may put in a tool_use block.
ToolNames == {"load_workspace", "list_mediaplans"}

\* Tool names the LLM puts in a tool_use block of a follow-up response.
FollowUpToolNames == {"load_workspace"}

\* Argument maps: "valid" holds only keyword arguments of the tool;
\* "reserved" holds the key session_state, which collides with the
\* positional argument of tool.execute(self.session_state, **tool_args).
ArgKinds == {"valid", "reserved"}

\* What a tool body does when it is invoked.
BodyOutcomes == {"ok", "ok_object", "fail_object", "raise"}

\* Exception raised by the LLM client (transport or protocol failure).
LLMErrors == {"APIError"}

\* ------------------------------------------------------------ text values
\* A text is a sequence of tokens; the empty text is <<>>; += is \o.
EmptyText == <<>>

NoId == <<0, 0, 0>>

TextBlock(tok) ==
    [type |-> "text", text |-> <<tok>>, name |-> "", id |-> NoId, input |-> ""]

ToolUseBlock(name, id, input) ==
    [type |-> "tool_use", text |-> EmptyText, name |-> name, id |-> id,
     input |-> input]

\* The content of an LLM response: blocks in order.  Block i of request r of
\* turn t carries the text token <<"r1", i>> / <<"r2", i>> or the call identifier <<t, r, i>>.
BlockChoices(t, r, i, names, inputs) ==
    {TextBlock(<<IF r = 1 THEN "r1" ELSE "r2", i>>)} \cup
    {ToolUseBlock(n, <<t, r, i>>, a) : n \in names, a \in inputs}

RECURSIVE Contents(_, _, _, _, _)
Contents(t, r, len, names, inputs) ==
    IF len = 0 THEN {<<>>}
    ELSE {Append(c, b) : c \in Contents(t, r, len - 1, names, inputs),
                         b \in BlockChoices(t, r, len, names, inputs)}

ToolUses(content) == SelectSeq(content, LAMBDA b : b.type = "tool_use")

\* ------------------------------------------------------- result envelopes
\* A tool result is a dictionary; keys is the set of keys it holds, and a
\* field whose key is absent keeps the filler value below.
\* payload is the kind of the values stored under the extra keys:
\*   "none"   no extra key,
\*   "date"   str/int/list/dict values and date, datetime or Decimal values,
\*   "iso"    the same after encoding (isoformat strings, floats),
\*   "object" a value the JSON encoder does not know.
BlankEnvelope ==
    [keys |-> {}, success |-> FALSE, message |-> "", error |-> "",
     tool_name |-> "", error_type |-> "", available_tools |-> <<>>,
     payload |-> "none"]

NoException == [type |-> "", msg |-> ""]

\* ---------------------------------------------------------- session state
NoWorkspace == "None"
NoMediaPlan == "None"

NewSessionState(id) ==
    [session_id |-> id, conversation_history |-> <<>>,
     current_mediaplan |-> NoMediaPlan, workspace_manager |-> NoWorkspace,
     recommendations |-> <<>>]

\* A log that puts the new record in front of the earlier ones.
add_conversation_turn_Prepend(ss, now, user_input, agent_response) ==
    [ss EXCEPT !.conversation_history =
        <<[timestamp |-> now, user |-> user_input,
           agent |-> agent_response]>> \o @]

add_conversation_turn(ss, now, user_input, agent_response) ==
    [ss EXCEPT !.conversation_history =
        Append(@, [timestamp |-> now, user |-> user_input,
                   agent |-> agent_response])]

\* ------------------------------------------------------------- tool calls
\* The body of a tool, opaque to the registry: it returns a dictionary with
\* a boolean success key, or raises.  out is the outcome the body takes on
\* this invocation.  A successful load_workspace stores the workspace handle
\* in the session state.
ToolBody(out, name, ss) ==
    CASE out = "ok" ->
           [raised |-> FALSE, exc |-> NoException,
            result |-> [BlankEnvelope EXCEPT
                          !.keys = {"success", "message", "data"},
                          !.success = TRUE, !.message = "done",
                          !.payload = "date"],
            session |-> IF name = "load_workspace"
                        THEN [ss EXCEPT !.workspace_manager = "workspace"]
                        ELSE ss]
      [] out = "ok_object" ->
           [raised |-> FALSE, exc |-> NoException,
            result |-> [BlankEnvelope EXCEPT
                          !.keys = {"success", "message", "data"},
                          !.success = TRUE, !.message = "done",
                          !.payload = "object"],
            session |-> ss]
      [] out = "fail_object" ->
           [raised |-> FALSE, exc |-> NoException,
            result |-> [BlankEnvelope EXCEPT
                          !.keys = {"success", "data"},
                          !.success = FALSE, !.payload = "object"],
            session |-> ss]
      [] OTHER ->
           [raised |-> TRUE, exc |-> [type |-> "ValueError", msg |-> "boom"],
            result |-> BlankEnvelope, session |-> ss]

\* except Exception in FunctionTool.execute / JsonTool.execute: the
\* dictionary built from the caught exception.
WrapperErrorResult(exc) ==
    [BlankEnvelope EXCEPT !.keys = {"success", "message", "error"},
                          !.success = FALSE,
                          !.message = "Tool execution failed",
                          !.error = exc.msg]

\* Changed Tool_execute: no try/except around the body.
Tool_execute_NoCatch(out, name, ss) ==
    LET body == ToolBody(out, name, ss) IN
    [raised |-> body.raised, exc |-> body.exc, result |-> body.result,
     session |-> body.session]

\* FunctionTool.execute / JsonTool.execute: try: return func(session_state,
\* **kwargs) except Exception: return the error dictionary.
Tool_execute(out, name, ss) ==
    LET body == ToolBody(out, name, ss) IN
    IF body.raised
    THEN [raised |-> FALSE, exc |-> NoException,
          result |-> WrapperErrorResult(body.exc), session |-> body.session]
    ELSE [raised |-> FALSE, exc |-> NoException, result |-> body.result,
          session |-> body.session]

\* The registry is a dictionary keyed by tool name; the model keeps its keys
\* in insertion order.
HasTool(registry, name) == \E k \in 1..Len(registry) : registry[k] = name

get_tool_names(registry) == registry

\* Changed NotFoundResult: the list of names is left out.
NotFoundResult_NoNames(tool_name, registry) ==
    [BlankEnvelope EXCEPT !.keys = {"success", "error", "available_tools"},
                          !.success = FALSE,
                          !.error = "Tool not found in registry"]

\* _execute_tool, tool not in the registry.
NotFoundResult(tool_name, registry) ==
    [BlankEnvelope EXCEPT !.keys = {"success", "error", "available_tools"},
                          !.success = FALSE,
                          !.error = "Tool not found in registry",
                          !.available_tools = get_tool_names(registry)]

\* _execute_tool, except Exception around tool.execute(...).
ExecutionFailedResult(tool_name, exc) ==
    [BlankEnvelope EXCEPT
        !.keys = {"success", "error", "tool_name", "error_type"},
        !.success = FALSE, !.error = exc.msg, !.tool_name = tool_name,
        !.error_type = exc.type]

\* The call tool.execute(self.session_state, **tool_args).  An argument map
\* holding the key session_state makes the call itself raise TypeError
\* before the wrapper's try block is entered.
CallExecute(input, out, name, ss) ==
    IF input = "reserved"
    THEN [called |-> FALSE, raised |-> TRUE,
          exc |-> [type |-> "TypeError", msg |-> "multiple values"],
          result |-> BlankEnvelope, session |-> ss]
    ELSE LET w == Tool_execute(out, name, ss) IN
         [called |-> TRUE, raised |-> w.raised, exc |-> w.exc,
          result |-> w.result, session |-> w.session]

\* ClaudeAgent._execute_tool.  called: the tool wrapper (and so the body)
\* was entered; wrapper_raised: the wrapper let an exception out.
ClaudeAgent_execute_tool(block, out, registry, ss) ==
    IF ~HasTool(registry, block.name)
    THEN [raised |-> FALSE, result |-> NotFoundResult(block.name, registry),
          session |-> ss, called |-> FALSE, wrapper_raised |-> FALSE]
    ELSE LET call == CallExecute(block.input, out, block.name, ss) IN
         IF call.raised
         THEN [raised |-> FALSE,
               result |-> ExecutionFailedResult(block.name, call.exc),
               session |-> call.session, called |-> call.called,
               wrapper_raised |-> call.called]
         ELSE [raised |-> FALSE, result |-> call.result,
               session |-> call.session, called |-> call.called,
               wrapper_raised |-> FALSE]

\* ------------------------------------------------------------ JSON encoding
\* json.dumps(result, cls=CustomJSONEncoder): dates and Decimals are turned
\* into strings and floats; any other unknown value makes dumps raise.
json_dumps(result) ==
    IF result.payload = "object"
    THEN [raised |-> TRUE, json |-> BlankEnvelope]
    ELSE [raised |-> FALSE,
          json |-> [result EXCEPT !.payload =
                       IF @ = "date" THEN "iso" ELSE @]]

\* Changed FallbackEnvelope: the success flag is always false.
FallbackEnvelope_Failure(result) ==
    [BlankEnvelope EXCEPT
        !.keys = {"success", "message", "error"},
        !.success = FALSE,
        !.message = IF "message" \in result.keys THEN result.message
                    ELSE "Serialization error",
        !.error = "JSON serialization failed"]

\* The safe representation built when json.dumps raised.
FallbackEnvelope(result) ==
    [BlankEnvelope EXCEPT
        !.keys = {"success", "message", "error"},
        !.success = IF "success" \in result.keys THEN result.success
                    ELSE FALSE,
        !.message = IF "message" \in result.keys THEN result.message
                    ELSE "Serialization error",
        !.error = "JSON serialization failed"]

SerializeResult(result) ==
    LET d == json_dumps(result) IN
    IF d.raised THEN json_dumps(FallbackEnvelope(result)).json ELSE d.json

\* ------------------------------------------------------ wire-level history
UserTurn(text) ==
    [role |-> "user", kind |-> "text", text |-> text, blocks |-> <<>>,
     tool_use_id |-> NoId, content |-> BlankEnvelope]

AssistantTurn(text) ==
    [role |-> "assistant", kind |-> "text", text |-> text, blocks |-> <<>>,
     tool_use_id |-> NoId, content |-> BlankEnvelope]

\* {"role": "assistant", "content": response.content}
AssistantContentTurn(content) ==
    [role |-> "assistant", kind |-> "content", text |-> EmptyText,
     blocks |-> content, tool_use_id |-> NoId, content |-> BlankEnvelope]

\* {"role": "user", "content": [{"type": "tool_result", ...}]}
ToolResultTurn(tool_call) ==
    [role |-> "user", kind |-> "tool_result", text |-> EmptyText,
     blocks |-> <<>>, tool_use_id |-> tool_call.tool_use_id,
     content |-> SerializeResult(tool_call.result)]

\* Changed ToolResultTurns: the results are appended last call first.
ToolResultTurns_Reversed(calls) ==
    [k \in 1..Len(calls) |-> ToolResultTurn(calls[Len(calls) + 1 - k])]

\* Changed ToolResultTurns: only the first invocation is answered.
ToolResultTurns_FirstOnly(calls) ==
    [k \in 1..(IF Len(calls) > 0 THEN 1 ELSE 0) |-> ToolResultTurn(calls[k])]

\* for tool_call in tool_calls_made: append the tool-result turn.
ToolResultTurns(calls) ==
    [k \in 1..Len(calls) |-> ToolResultTurn(calls[k])]

\* BaseAgent.handle_error(e, "processing your request")
handle_error(exc) == << <<exc, 0>> >>

Placeholder == << <<"no text response", 0>> >>

\* ------------------------------------------------------------------- state
VARIABLES
    conversation_history,  \* ClaudeAgent.conversation_history (wire level)
    session_state,         \* BaseAgent.session_state
    tool_registry,         \* the registry's tools dictionary (its keys)
    pc,                    \* where chat is: "idle", "request1", "request2"
    turn,                  \* number of chat calls made so far
    message,               \* chat's argument
    use_tools,             \* chat's argument while chat runs (default TRUE)
    response,              \* response.content of the first request
    follow_up_response,    \* follow_up_response.content
    tool_calls_made,       \* chat's local list
    response_text,         \* chat's local string
    requests,              \* messages sent by each LLM request of the turn
    responses_received,    \* LLM responses received in the turn
    exec_log,              \* one record per _execute_tool call of the turn
    outcome,               \* how the last chat call ended
    pre                    \* history and session state when chat was called

\* The dispatch loop's variables.
chat_vars ==
    <<conversation_history, session_state, tool_registry, pc, turn, message,
      use_tools, response, follow_up_response, tool_calls_made,
      response_text, requests, responses_received, exec_log, outcome, pre>>

VARIABLES
    tools,                 \* ToolRegistry.tools (name -> descriptor, in
                           \* insertion order)
    tool_categories,       \* ToolRegistry._tool_categories
    schemas,               \* what the last get_tool_schemas call returned
    registrations,         \* number of register calls made so far
    derived,               \* the last type derived for a parameter annotation
    registry_file,         \* the tool-configuration resource on disk
    json_tool_registry,    \* json_registry._json_tool_registry (the singleton)
    obtained,              \* how the last call on the JSON registry ended
    strategic_context,     \* SessionState.strategic_context
    context_data,          \* argument of the last update_strategic_context
    context_before         \* strategic_context when that call was made

VARIABLES
    workspace_plans,       \* ids of the media plans the loaded workspace holds
    tool_call,             \* the last call of a workspace or media plan tool
    schema_version,        \* the last _get_preferred_schema_version call
    resets,                \* number of reset calls made so far
    last_reset,            \* the last reset call and the state it found
    executed               \* the last tools.base.execute_tool call

\* The variables of the workspace and media plan tools.
tool_vars == <<workspace_plans, tool_call, schema_version>>

\* The variables of the reset operations.
lifecycle_vars == <<resets, last_reset>>

\* The variables of tools.base.execute_tool.
execute_vars == <<executed>>

\* The variables of the tool registry (tools/base.py).
registry_vars == <<tools, tool_categories, schemas, registrations, derived>>

\* The variables of the JSON tool registry (agent/json_registry.py).
json_vars == <<registry_file, json_tool_registry, obtained>>

\* The variables of the strategic context (agent/session.py).
context_vars == <<strategic_context, context_data, context_before>>

\* The variables of the tools, of the resets and of execute_tool.
added_vars == <<tool_vars, lifecycle_vars, execute_vars>>

vars == <<chat_vars, registry_vars, json_vars, context_vars, added_vars>>

NoOutcome == [kind |-> "none", text |-> EmptyText, exc |-> ""]

\* The state of a newly constructed agent.
ChatInit ==
    /\ conversation_history = <<>>
    /\ session_state = NewSessionState(1)
    /\ tool_registry \in {<<"load_workspace">>,
                          <<"load_workspace", "list_mediaplans">>}
    /\ pc = "idle"
    /\ turn = 0
    /\ message = <<"user", 0>>
    /\ use_tools = TRUE
    /\ response = <<>>
    /\ follow_up_response = <<>>
    /\ tool_calls_made = <<>>
    /\ response_text = EmptyText
    /\ requests = <<>>
    /\ responses_received = 0
    /\ exec_log = <<>>
    /\ outcome = NoOutcome
    /\ pre = [history |-> <<>>, session |-> NewSessionState(1)]

\* ---------------------------------------------------- the steps of chat
\* Changed ProcessContent: the loop ends at the first invocation whose
\* result has success=false.
RECURSIVE ProcessContent_StopOnFailure(_, _, _, _, _)
ProcessContent_StopOnFailure(content, outs, registry, i, acc) ==
    IF i > Len(content) \/ acc.raised THEN acc
    ELSE LET b == content[i] IN
         IF b.type = "text"
         THEN ProcessContent_StopOnFailure(content, outs, registry, i + 1,
                  [acc EXCEPT !.response_text = @ \o b.text])
         ELSE LET r == ClaudeAgent_execute_tool(b, outs[i], registry,
                                                acc.session)
                  entry == [tool_use_id |-> b.id, tool_name |-> b.name,
                            input |-> b.input, out |-> outs[i],
                            registered |-> HasTool(registry, b.name),
                            called |-> r.called,
                            wrapper_raised |-> r.wrapper_raised,
                            raised |-> r.raised, result |-> r.result,
                            session_before |-> acc.session,
                            session_after |-> r.session]
              IN ProcessContent_StopOnFailure(content, outs, registry,
                  IF r.result.success THEN i + 1 ELSE Len(content) + 1,
                  [acc EXCEPT
                     !.session = r.session,
                     !.exec_log = Append(@, entry),
                     !.tool_calls_made =
                        Append(@, [tool_name |-> b.name,
                                   result |-> r.result,
                                   tool_use_id |-> b.id])])

\* for content_block in response.content: accumulate text, execute tools.
\* acc.raised: an exception left _execute_tool and the loop.
RECURSIVE ProcessContent(_, _, _, _, _)
ProcessContent(content, outs, registry, i, acc) ==
    IF i > Len(content) \/ acc.raised THEN acc
    ELSE LET b == content[i] IN
         IF b.type = "text"
         THEN ProcessContent(content, outs, registry, i + 1,
                  [acc EXCEPT !.response_text = @ \o b.text])
         ELSE LET r == ClaudeAgent_execute_tool(b, outs[i], registry,
                                                acc.session)
                  entry == [tool_use_id |-> b.id, tool_name |-> b.name,
                            input |-> b.input, out |-> outs[i],
                            registered |-> HasTool(registry, b.name),
                            called |-> r.called,
                            wrapper_raised |-> r.wrapper_raised,
                            raised |-> r.raised, result |-> r.result,
                            session_before |-> acc.session,
                            session_after |-> r.session]
              IN ProcessContent(content, outs, registry, i + 1,
                  [acc EXCEPT
                     !.raised = r.raised,
                     !.session = r.session,
                     !.exec_log = Append(@, entry),
                     !.tool_calls_made =
                        IF r.raised THEN @
                        ELSE Append(@, [tool_name |-> b.name,
                                        result |-> r.result,
                                        tool_use_id |-> b.id])])

\* Changed NeedsFollowUp: a follow-up request after every first response.
NeedsFollowUp_Always(calls) == TRUE

\* Changed NeedsFollowUp: no follow-up request at all.
NeedsFollowUp_Never(calls) == FALSE

\* if tool_calls_made: the conversation continues with a follow-up request.
NeedsFollowUp(calls) == calls # <<>>

\* Changed CommitsText: the final text is never committed.
CommitsText_Never(text) == FALSE

\* if response_text / if follow_up_text: commit the text as assistant turn.
CommitsText(text) == text # EmptyText

\* Changed StoresTurn: every completed turn is stored.
StoresTurn_Always(text) == TRUE

\* if response_text: store the turn in the session state.
StoresTurn(text) == text # EmptyText

\* Changed ReturnedText: the final text is returned as it is.
ReturnedText_Raw(text) == text

\* return response_text or "I executed some tools but didn't ...".
ReturnedText(text) == IF text # EmptyText THEN text ELSE Placeholder

\* follow_up_text: the text blocks of the follow-up response, concatenated.
RECURSIVE ExtractText(_, _)
ExtractText(content, i) ==
    IF i > Len(content) THEN EmptyText
    ELSE (IF content[i].type = "text" THEN content[i].text ELSE EmptyText)
         \o ExtractText(content, i + 1)

\* Changed ErrorTurns: the error is not recorded.
ErrorTurns_None(exc) == <<>>

\* except Exception as e: the error turn appended to the history.
ErrorTurns(exc) == <<AssistantTurn(handle_error(exc))>>

\* chat(message, use_tools) up to the first messages.create call.
ChatCall(use) ==
    /\ pc = "idle"
    /\ Len(conversation_history) + 2 <= MaxHistory
    /\ turn' = turn + 1
    /\ message' = <<"user", turn + 1>>
    /\ use_tools' = use
    /\ pre' = [history |-> conversation_history, session |-> session_state]
    /\ conversation_history' =
          Append(conversation_history, UserTurn(<<message'>>))
    /\ requests' = <<conversation_history'>>
    /\ responses_received' = 0
    /\ response' = <<>>
    /\ follow_up_response' = <<>>
    /\ tool_calls_made' = <<>>
    /\ response_text' = EmptyText
    /\ exec_log' = <<>>
    /\ outcome' = NoOutcome
    /\ pc' = "request1"
    /\ UNCHANGED <<session_state, tool_registry>>
    /\ UNCHANGED <<registry_vars, json_vars, context_vars, added_vars>>

\* The end of chat: store the turn, return the text.
Finish(history, ss, text) ==
    /\ conversation_history' = history
    /\ session_state' =
          IF StoresTurn(text)
          THEN add_conversation_turn(ss, turn, message, text)
          ELSE ss
    /\ response_text' = text
    /\ outcome' = [kind |-> "returned", text |-> ReturnedText(text),
                   exc |-> ""]
    /\ use_tools' = TRUE
    /\ pc' = "idle"

\* The except branch of chat: append the error turn, raise.
Fail(history, ss, exc) ==
    /\ conversation_history' = history \o ErrorTurns(exc)
    /\ session_state' = ss
    /\ outcome' = [kind |-> "raised", text |-> EmptyText,
                   exc |-> "AgentCommunicationError"]
    /\ use_tools' = TRUE
    /\ pc' = "idle"

\* The first request returns content; chat runs up to its return or up to
\* the follow-up messages.create call.  acc is the state after the loop over
\* the content blocks.
FirstResponseAcc(content, acc) ==
    /\ response' = content
    /\ responses_received' = 1
    /\ exec_log' = acc.exec_log
    /\ tool_calls_made' = acc.tool_calls_made
    /\ UNCHANGED <<tool_registry, turn, message, follow_up_response, pre>>
    /\ IF acc.raised
       THEN /\ Fail(conversation_history, acc.session, "ToolError")
            /\ response_text' = acc.response_text
            /\ requests' = requests
       ELSE IF NeedsFollowUp(acc.tool_calls_made)
       THEN /\ conversation_history' =
                 Append(conversation_history, AssistantContentTurn(content))
                 \o ToolResultTurns(acc.tool_calls_made)
            /\ session_state' = acc.session
            /\ response_text' = acc.response_text
            /\ requests' = Append(requests, conversation_history')
            /\ outcome' = outcome
            /\ use_tools' = use_tools
            /\ pc' = "request2"
       ELSE /\ Finish(IF CommitsText(acc.response_text)
                      THEN Append(conversation_history,
                                  AssistantTurn(acc.response_text))
                      ELSE conversation_history,
                      acc.session, acc.response_text)
            /\ requests' = requests

FirstResponse(content, outs) ==
    FirstResponseAcc(content,
        ProcessContent(content, outs, tool_registry, 1,
            [response_text |-> EmptyText, tool_calls_made |-> <<>>,
             session |-> session_state, exec_log |-> <<>>,
             raised |-> FALSE]))

\* What the environment decides for block i of the first response: the
\* block the LLM produced and, for a tool_use block whose body will run, the
\* outcome the body takes.
TextDecisions(i) == {[block |-> TextBlock(<<"r1", i>>), out |-> "ok"]}

ToolDecisions(t, i, registry, names) ==
    UNION {{[block |-> ToolUseBlock(c[1], <<t, 1, i>>, c[2]), out |-> o] :
               o \in IF HasTool(registry, c[1]) /\ c[2] = "valid"
                      THEN BodyOutcomes ELSE {"ok"}} :
           c \in names \X ArgKinds}

\* The decisions for a response of len blocks with at most room tool_use
\* blocks; each scenario is paired with its number of tool_use blocks.
RECURSIVE Scenarios(_, _, _, _, _)
Scenarios(t, len, registry, names, room) ==
    IF len = 0 THEN {[sc |-> <<>>, n |-> 0]}
    ELSE UNION {
           {[sc |-> Append(c.sc, d), n |-> c.n] : d \in TextDecisions(len)}
           \cup
           (IF c.n < room
            THEN {[sc |-> Append(c.sc, d), n |-> c.n + 1] :
                     d \in ToolDecisions(t, len, registry, names)}
            ELSE {}) :
           c \in Scenarios(t, len - 1, registry, names, room)}

\* Tool-result turns the history has room for in this turn, after the raw
\* assistant turn and before the final one.
Room == IF Len(conversation_history) + 2 <= MaxHistory
        THEN MaxHistory - Len(conversation_history) - 2 ELSE 0

LLMResponds1 ==
    /\ pc = "request1"
    /\ \E len \in 0..MaxBlocks :
       \E s \in Scenarios(turn, len, tool_registry,
                          IF use_tools THEN ToolNames ELSE {}, Room) :
          FirstResponse([i \in 1..len |-> s.sc[i].block],
                        [i \in 1..len |-> s.sc[i].out])
    /\ UNCHANGED <<registry_vars, json_vars, context_vars, added_vars>>

\* The first messages.create call raises.
LLMFails1 ==
    /\ pc = "request1"
    /\ \E e \in LLMErrors :
          Fail(conversation_history, session_state, e)
    /\ UNCHANGED <<tool_registry, turn, message, response,
                   follow_up_response, tool_calls_made, response_text,
                   requests, responses_received, exec_log, pre>>
    /\ UNCHANGED <<registry_vars, json_vars, context_vars, added_vars>>

\* The follow-up request returns content; chat runs to its return.
FollowUpResponseText(content, follow_up_text) ==
    /\ follow_up_response' = content
    /\ responses_received' = 2
    /\ Finish(IF CommitsText(follow_up_text)
              THEN Append(conversation_history, AssistantTurn(follow_up_text))
              ELSE conversation_history,
              session_state, follow_up_text)
    /\ UNCHANGED <<tool_registry, turn, message, response,
                   tool_calls_made, requests, exec_log, pre>>

\* Changed FollowUpResponse: the follow-up text is added to the text of the
\* first response.
FollowUpResponse_Accumulate(content) ==
    FollowUpResponseText(content, response_text \o ExtractText(content, 1))

FollowUpResponse(content) ==
    FollowUpResponseText(content, ExtractText(content, 1))

LLMResponds2 ==
    /\ pc = "request2"
    /\ \E len \in 0..MaxFollowUp :
       \E content \in Contents(turn, 2, len,
                               IF use_tools THEN FollowUpToolNames ELSE {},
                               {"valid"}) :
          FollowUpResponse(content)
    /\ UNCHANGED <<registry_vars, json_vars, context_vars, added_vars>>

\* The follow-up messages.create call raises.
LLMFails2 ==
    /\ pc = "request2"
    /\ \E e \in LLMErrors :
          Fail(conversation_history, session_state, e)
    /\ UNCHANGED <<tool_registry, turn, message, response,
                   follow_up_response, tool_calls_made, response_text,
                   requests, responses_received, exec_log, pre>>
    /\ UNCHANGED <<registry_vars, json_vars, context_vars, added_vars>>

\* =========================================================== tool registry
\* Largest number of ToolRegistry.register calls.
MaxRegistrations == 3

\* Category labels given to register.
Categories == {"general", "workspace"}

\* ---- annotations of parameters
\* A class used as annotation (str, int, a user class, NoneType, ...): it
\* has no __origin__.
Class(name) == [name |-> name, origin |-> "", has_args |-> FALSE, args |-> <<>>]

\* A subscripted generic alias (Optional[T] = Union[T, None], List[T],
\* Dict[K, V], Union[T, U]): __origin__ and __args__.
Alias(origin, args) ==
    [name |-> "", origin |-> origin, has_args |-> TRUE, args |-> args]

\* A bare alias of typing (typing.List, typing.Dict): __origin__, no __args__.
BareAlias(origin) ==
    [name |-> "", origin |-> origin, has_args |-> FALSE, args |-> <<>>]

\* inspect.Parameter.empty: the parameter has no annotation.
Empty == Class("empty")

NoneType == Class("NoneType")

Optional(t) == Alias("Union", <<t, NoneType>>)

\* type_mapping.get(python_type, "string")
type_mapping_get(python_type) ==
    IF python_type.origin # "" THEN "string"
    ELSE CASE python_type.name = "str" -> "string"
           [] python_type.name = "int" -> "integer"
           [] python_type.name = "float" -> "number"
           [] python_type.name = "bool" -> "boolean"
           [] python_type.name = "list" -> "array"
           [] python_type.name = "dict" -> "object"
           [] OTHER -> "string"

\* [arg for arg in python_type.__args__ if arg is not type(None)]
NonNoneTypes(args) == SelectSeq(args, LAMBDA arg : arg # NoneType)

\* Tool._python_type_to_json_type
RECURSIVE python_type_to_json_type(_)
python_type_to_json_type(python_type) ==
    IF python_type.origin # ""
    THEN IF python_type.origin = "NoneType" THEN "string"
         ELSE IF python_type.has_args
                 /\ NonNoneTypes(python_type.args) # <<>>
         THEN python_type_to_json_type(NonNoneTypes(python_type.args)[1])
         ELSE type_mapping_get(python_type)
    ELSE type_mapping_get(python_type)

\* param_type = param.annotation if param.annotation != empty else str, and
\* the "type" of the property.
PropertyType(annotation) ==
    python_type_to_json_type(IF annotation # Empty THEN annotation
                             ELSE Class("str"))

\* A parameter of a function signature (inspect.Parameter): its name, its
\* kind, whether it declares a default value, and its annotation.
Parameter(name, kind, has_default, annotation) ==
    [name |-> name, kind |-> kind, has_default |-> has_default,
     annotation |-> annotation]

\* Tool.execute(self, session_state, **kwargs), as inspect.signature sees the
\* bound method.
ExecuteSignature ==
    <<Parameter("session_state", "POSITIONAL_OR_KEYWORD", FALSE, Empty),
      Parameter("kwargs", "VAR_KEYWORD", FALSE, Empty)>>

\* The functions given to a tool descriptor as original_func: None, a
\* function whose signature cannot be inspected, and functions declaring
\* the injected session_state, required and defaulted parameters and a
\* variadic keyword parameter (named kwargs or otherwise).
NoFunction == [given |-> FALSE, inspectable |-> TRUE, signature |-> <<>>]

\* load_workspace(session_state, workspace_path: Optional[str] = None,
\* workspace_id: Optional[str] = None, **kwargs)
LoadWorkspaceFunction ==
    [given |-> TRUE, inspectable |-> TRUE, signature |->
       <<Parameter("session_state", "POSITIONAL_OR_KEYWORD", FALSE, Empty),
         Parameter("workspace_path", "POSITIONAL_OR_KEYWORD", TRUE,
                   Optional(Class("str"))),
         Parameter("workspace_id", "POSITIONAL_OR_KEYWORD", TRUE,
                   Optional(Class("str"))),
         Parameter("kwargs", "VAR_KEYWORD", FALSE, Empty)>>]

\* delete_mediaplan(session_state, media_plan_id: str,
\* confirm_deletion: bool = False, **kwargs)
DeleteMediaplanFunction ==
    [given |-> TRUE, inspectable |-> TRUE, signature |->
       <<Parameter("session_state", "POSITIONAL_OR_KEYWORD", FALSE, Empty),
         Parameter("media_plan_id", "POSITIONAL_OR_KEYWORD", FALSE,
                   Class("str")),
         Parameter("confirm_deletion", "POSITIONAL_OR_KEYWORD", TRUE,
                   Class("bool")),
         Parameter("kwargs", "VAR_KEYWORD", FALSE, Empty)>>]

\* A function whose variadic keyword parameter has another name than
\* kwargs.
OptionsFunction ==
    [given |-> TRUE, inspectable |-> TRUE, signature |->
       <<Parameter("session_state", "POSITIONAL_OR_KEYWORD", FALSE, Empty),
         Parameter("path", "POSITIONAL_OR_KEYWORD", TRUE, Empty),
         Parameter("options", "VAR_KEYWORD", FALSE, Empty)>>]

Functions ==
    {NoFunction,
     [given |-> TRUE, inspectable |-> FALSE, signature |-> <<>>],
     DeleteMediaplanFunction,
     OptionsFunction}

\* ---- dictionaries: sequences of [key, value] in insertion order
DictKeys(d) == [k \in 1..Len(d) |-> d[k].key]
DictHas(d, key) == \E k \in 1..Len(d) : d[k].key = key
DictGet(d, key) == d[CHOOSE k \in 1..Len(d) : d[k].key = key].value
\* d[key] = value: in place when the key is there, at the end otherwise.
DictSet(d, key, value) ==
    IF DictHas(d, key)
    THEN [k \in 1..Len(d) |->
            IF d[k].key = key THEN [key |-> key, value |-> value] ELSE d[k]]
    ELSE Append(d, [key |-> key, value |-> value])

SeqHas(seq, x) == \E k \in 1..Len(seq) : seq[k] = x

\* ---- Tool.get_schema
NoSchema == [name |-> "", description |-> 0, properties |-> <<>>,
             required |-> <<>>]

\* The loop over sig.parameters, from parameter i on.
RECURSIVE SchemaOfParameters(_, _, _)
SchemaOfParameters(sig, i, acc) ==
    IF i > Len(sig) THEN acc
    ELSE IF sig[i].name \in {"session_state", "kwargs"}
    THEN SchemaOfParameters(sig, i + 1, acc)
    ELSE IF sig[i].kind = "VAR_KEYWORD"
    THEN SchemaOfParameters(sig, i + 1, acc)
    ELSE SchemaOfParameters(sig, i + 1,
           [acc EXCEPT
              !.properties =
                 DictSet(@, sig[i].name, PropertyType(sig[i].annotation)),
              !.required = IF sig[i].has_default THEN @
                           ELSE Append(@, sig[i].name)])

Tool_get_schema(tool) ==
    LET func_to_inspect ==
            IF tool.original_func.given THEN tool.original_func
            ELSE [given |-> TRUE, inspectable |-> TRUE,
                  signature |-> ExecuteSignature]
    IN IF ~func_to_inspect.inspectable
       THEN [raised |-> TRUE, schema |-> NoSchema]
       ELSE [raised |-> FALSE,
             schema |-> SchemaOfParameters(
                          func_to_inspect.signature, 1,
                          [NoSchema EXCEPT !.name = tool.name,
                                           !.description = tool.description])]

\* ---- ToolRegistry.register
\* A registry that keeps the first descriptor stored under a name and lists
\* the name in the category once more.
ToolRegistry_register_KeepFirst(reg, tool, category) ==
    [tools |-> IF DictHas(reg.tools, tool.name)
               THEN Append(reg.tools, [key |-> tool.name,
                                       value |-> DictGet(reg.tools,
                                                         tool.name)])
               ELSE Append(reg.tools, [key |-> tool.name, value |-> tool]),
     categories |->
        DictSet(reg.categories, category,
                Append(IF DictHas(reg.categories, category)
                       THEN DictGet(reg.categories, category) ELSE <<>>,
                       tool.name))]

\* A registry that lists the name in the category without storing the
\* descriptor.
ToolRegistry_register_CategoryOnly(reg, tool, category) ==
    [tools |-> reg.tools,
     categories |->
        DictSet(reg.categories, category,
                Append(IF DictHas(reg.categories, category)
                       THEN DictGet(reg.categories, category) ELSE <<>>,
                       tool.name))]

ToolRegistry_register(reg, tool, category) ==
    LET stored == DictSet(reg.tools, tool.name, tool)
        cats == IF DictHas(reg.categories, category)
                THEN reg.categories
                ELSE DictSet(reg.categories, category, <<>>)
        names == DictGet(cats, category)
    IN [tools |-> stored,
        categories |->
           IF SeqHas(names, tool.name) THEN cats
           ELSE DictSet(cats, category, Append(names, tool.name))]

\* ToolRegistry.get_all_tools: list(self.tools.values()).
get_all_tools(d) == [k \in 1..Len(d) |-> d[k].value]

\* ---- ToolRegistry.get_tool_info: total_tools and the number of names per
\* category.
get_tool_info(d, categories) ==
    [total_tools |-> Len(d),
     categories |-> [k \in 1..Len(categories) |->
                       [key |-> categories[k].key,
                        value |-> Len(categories[k].value)]]]

\* ---- ToolRegistry.get_tool_schemas
NoSchemas == [called |-> FALSE, raised |-> FALSE, returned |-> <<>>,
              registered |-> <<>>]

\* A loop that lets the exception of a tool's schema generation through.
RECURSIVE get_tool_schemas_NoCatch(_, _, _)
get_tool_schemas_NoCatch(all, i, acc) ==
    IF i > Len(all) THEN [raised |-> FALSE, returned |-> acc]
    ELSE IF Tool_get_schema(all[i]).raised
    THEN [raised |-> TRUE, returned |-> <<>>]
    ELSE get_tool_schemas_NoCatch(all, i + 1,
                                  Append(acc, Tool_get_schema(all[i]).schema))

\* for tool in self.tools.values(): try ... except Exception: continue
RECURSIVE get_tool_schemas(_, _, _)
get_tool_schemas(all, i, acc) ==
    IF i > Len(all) THEN [raised |-> FALSE, returned |-> acc]
    ELSE IF Tool_get_schema(all[i]).raised
    THEN get_tool_schemas(all, i + 1, acc)
    ELSE get_tool_schemas(all, i + 1,
                          Append(acc, Tool_get_schema(all[i]).schema))

\* ---- the annotations a parameter may carry
\* Deepest nesting of subscripted annotations.
MaxNesting == 2

Classes ==
    {Class(n) : n \in {"str", "int", "float", "bool", "list", "dict",
                       "NoneType", "Any", "Decimal"}}

IsUnion(t) == t.origin = "Union"

\* Annotations nested at most n deep.  typing flattens nested unions and
\* drops repeated members, so a member of a Union is never a Union.
RECURSIVE AnnotationsUpTo(_)
AnnotationsUpTo(n) ==
    IF n = 0 THEN Classes \cup {Empty}
    ELSE LET inner == AnnotationsUpTo(n - 1) \ {Empty}
             members == {t \in inner : ~IsUnion(t) /\ t # NoneType}
         IN Classes \cup {Empty, BareAlias("list"), BareAlias("dict")}
            \cup {Optional(t) : t \in members}
            \cup {Alias("Union", <<t, Class("str")>>) :
                     t \in members \ {Class("str")}}
            \cup {Alias("list", <<t>>) : t \in inner}
            \cup {Alias("dict", <<k, t>>) :
                     k \in {Class("str"), Class("int")}, t \in inner}

Annotations == AnnotationsUpTo(MaxNesting)

NotDerived == [called |-> FALSE, annotation |-> Empty, json_type |-> ""]

\* Tool.get_schema derives the "type" of a property from the annotation of
\* one parameter.
DeriveType ==
    /\ \E annotation \in Annotations :
          derived' = [called |-> TRUE, annotation |-> annotation,
                      json_type |-> PropertyType(annotation)]
    /\ UNCHANGED <<tools, tool_categories, schemas, registrations>>
    /\ UNCHANGED <<chat_vars, json_vars, context_vars, added_vars>>

\* ---- the registry as a state machine
RegistryInit ==
    /\ tools = <<>>
    /\ tool_categories = <<>>
    /\ schemas = NoSchemas
    /\ registrations = 0
    /\ derived = NotDerived

\* tool_registry.register(tool, category); the descriptor's description
\* tells the descriptors of successive registrations apart.
Registered(reg) ==
    /\ tools' = reg.tools
    /\ tool_categories' = reg.categories
    /\ registrations' = registrations + 1
    /\ UNCHANGED <<schemas, derived>>

Register ==
    /\ registrations < MaxRegistrations
    /\ \E name \in ToolNames, func \in Functions, category \in Categories :
          Registered(ToolRegistry_register(
              [tools |-> tools, categories |-> tool_categories],
              [name |-> name, description |-> registrations + 1,
               original_func |-> func],
              category))
    /\ UNCHANGED <<chat_vars, json_vars, context_vars, added_vars>>

\* tool_registry.get_tool_schemas()
GotSchemas(res) ==
    /\ schemas' = [called |-> TRUE, raised |-> res.raised,
                   returned |-> res.returned, registered |-> tools]
    /\ UNCHANGED <<tools, tool_categories, registrations, derived>>

GetToolSchemas ==
    /\ schemas.registered # tools \/ ~schemas.called
    /\ GotSchemas(get_tool_schemas(get_all_tools(tools), 1, <<>>))
    /\ UNCHANGED <<chat_vars, json_vars, context_vars, added_vars>>

\* ====================================================== JSON tool registry
\* ---- the tool-configuration resource
\* The configuration of one parameter of a tool entry: a mapping that may
\* hold the key "required", or something that is no mapping.
ParamConfig(mapping, has_required, required) ==
    [mapping |-> mapping, has_required |-> has_required,
     required |-> required]

\* A tool entry: whether its value is a mapping, whether it names a module
\* and a function, whether the module can be imported and holds the
\* function, the function it binds and its "parameters" mapping.
ToolConfig(mapping, path, name, importable, found, function, parameters) ==
    [mapping |-> mapping, module_path |-> path, function_name |-> name,
     importable |-> importable, has_function |-> found,
     function |-> function, parameters |-> parameters]

Entry(key, value) == [key |-> key, value |-> value]

\* Entries whose binding fails and entries that are no mapping.
BrokenConfigs ==
    {ToolConfig(FALSE, FALSE, FALSE, FALSE, FALSE, NoFunction, <<>>),
     ToolConfig(TRUE, FALSE, TRUE, TRUE, TRUE, NoFunction, <<>>),
     ToolConfig(TRUE, TRUE, FALSE, TRUE, TRUE, NoFunction, <<>>),
     ToolConfig(TRUE, TRUE, TRUE, FALSE, FALSE, NoFunction, <<>>),
     ToolConfig(TRUE, TRUE, TRUE, TRUE, FALSE, NoFunction, <<>>)}

\* Entries whose binding succeeds: parameters that agree with the function,
\* parameters that mark another set required, parameters that list the
\* injected session_state, a parameter configuration that is no mapping.
BoundConfigs ==
    {ToolConfig(TRUE, TRUE, TRUE, TRUE, TRUE, LoadWorkspaceFunction,
        <<Entry("workspace_path", ParamConfig(TRUE, FALSE, FALSE))>>),
     ToolConfig(TRUE, TRUE, TRUE, TRUE, TRUE, DeleteMediaplanFunction,
        <<Entry("media_plan_id", ParamConfig(TRUE, TRUE, TRUE)),
          Entry("confirm_deletion", ParamConfig(TRUE, TRUE, FALSE))>>),
     ToolConfig(TRUE, TRUE, TRUE, TRUE, TRUE, DeleteMediaplanFunction,
        <<Entry("media_plan_id", ParamConfig(TRUE, FALSE, FALSE)),
          Entry("confirm_deletion", ParamConfig(TRUE, TRUE, TRUE))>>),
     ToolConfig(TRUE, TRUE, TRUE, TRUE, TRUE, DeleteMediaplanFunction,
        <<Entry("session_state", ParamConfig(TRUE, TRUE, TRUE)),
          Entry("media_plan_id", ParamConfig(TRUE, TRUE, TRUE))>>),
     ToolConfig(TRUE, TRUE, TRUE, TRUE, TRUE, LoadWorkspaceFunction,
        <<Entry("workspace_path", ParamConfig(FALSE, FALSE, FALSE))>>)}

ToolConfigs == BrokenConfigs \cup BoundConfigs

\* The value of a category: a mapping of tool entries, or no mapping.
CategoryValue(mapping, entries) == [mapping |-> mapping, entries |-> entries]

\* The configurations the entry after the first one takes: no mapping, a
\* module that cannot be imported, a binding that succeeds.
LaterConfigs ==
    {ToolConfig(FALSE, FALSE, FALSE, FALSE, FALSE, NoFunction, <<>>),
     ToolConfig(TRUE, TRUE, TRUE, FALSE, FALSE, NoFunction, <<>>),
     ToolConfig(TRUE, TRUE, TRUE, TRUE, TRUE, DeleteMediaplanFunction,
        <<Entry("media_plan_id", ParamConfig(TRUE, TRUE, TRUE)),
          Entry("confirm_deletion", ParamConfig(TRUE, TRUE, FALSE))>>)}

\* The entries of the first category: load_workspace and list_mediaplans,
\* each absent or present with one of the configurations.
WorkspaceEntries ==
    UNION {{a \o b :
              b \in {<<>>} \cup {<<Entry("list_mediaplans", c)>> :
                                    c \in LaterConfigs}} :
           a \in {<<>>} \cup {<<Entry("load_workspace", c)>> :
                                 c \in ToolConfigs}}

\* The second category, when the resource has one: no mapping, or one more
\* entry (whose name the first category may hold too).
SecondCategories ==
    {<<>>, <<Entry("mediaplan", CategoryValue(FALSE, <<>>))>>} \cup
    {<<Entry("mediaplan",
             CategoryValue(TRUE, <<Entry("load_workspace", c)>>))>> :
        c \in {ToolConfig(TRUE, TRUE, TRUE, FALSE, FALSE, NoFunction, <<>>),
               ToolConfig(TRUE, TRUE, TRUE, TRUE, TRUE,
                          DeleteMediaplanFunction, <<>>)}}

\* The "tool_registry" section of the resource.
RegistrySections ==
    UNION {{<<Entry("workspace", w)>> \o m : m \in SecondCategories} :
           w \in {CategoryValue(FALSE, <<>>)} \cup
                 {CategoryValue(TRUE, e) : e \in WorkspaceEntries}}

\* The resource: missing, no valid JSON, or a JSON object.
FileStatuses == {"ok", "missing", "invalid_json"}

\* ---- JsonToolRegistry._register_single_tool
\* The exception the binding of a tool entry raises, "" when it succeeds.
\* config.get on an entry that is no mapping raises AttributeError.
register_single_tool(config) ==
    IF ~config.mapping THEN "AttributeError"
    ELSE IF ~config.module_path \/ ~config.function_name THEN "ValueError"
    ELSE IF ~config.importable THEN "ImportError"
    ELSE IF ~config.has_function THEN "AttributeError"
    ELSE ""

\* The JsonTool built from a tool entry.
JsonTool(name, config, category) ==
    [name |-> name, category |-> category, function |-> config.function,
     parameters |-> config.parameters]

\* ---- JsonToolRegistry._register_tools_from_json
\* A loop over the entries of a category that stops at the first entry
\* whose binding fails.
RECURSIVE RegisterCategory_Abort(_, _, _, _)
RegisterCategory_Abort(registered, category, entries, i) ==
    IF i > Len(entries) THEN registered
    ELSE IF register_single_tool(entries[i].value) # ""
    THEN registered
    ELSE RegisterCategory_Abort(
             DictSet(registered, entries[i].key,
                     JsonTool(entries[i].key, entries[i].value, category)),
             category, entries, i + 1)

\* for tool_name, tool_config in category_tools.items(): try/except/continue
RECURSIVE RegisterCategory(_, _, _, _)
RegisterCategory(registered, category, entries, i) ==
    IF i > Len(entries) THEN registered
    ELSE IF register_single_tool(entries[i].value) # ""
    THEN RegisterCategory(registered, category, entries, i + 1)
    ELSE RegisterCategory(
             DictSet(registered, entries[i].key,
                     JsonTool(entries[i].key, entries[i].value, category)),
             category, entries, i + 1)

\* for category_name, category_tools in tool_registry.items(): the call
\* category_tools.items() is outside the try and raises AttributeError on a
\* value that is no mapping.
RECURSIVE register_tools_from_json(_, _, _)
register_tools_from_json(section, i, registered) ==
    IF i > Len(section) THEN [exc |-> "", tools |-> registered]
    ELSE IF ~section[i].value.mapping
    THEN [exc |-> "AttributeError", tools |-> registered]
    ELSE register_tools_from_json(
             section, i + 1,
             RegisterCategory(registered, section[i].key,
                              section[i].value.entries, 1))

\* ---- JsonToolRegistry.load_registry: every exception is logged and raised
\* again.
load_registry(file, registered) ==
    IF file.status = "missing"
    THEN [exc |-> "FileNotFoundError", tools |-> registered]
    ELSE IF file.status = "invalid_json"
    THEN [exc |-> "JSONDecodeError", tools |-> registered]
    ELSE register_tools_from_json(file.section, 1, registered)

\* ---- JsonTool.get_schema: properties and required come from the entry's
\* "parameters" mapping.
RECURSIVE JsonSchemaOfParameters(_, _, _)
JsonSchemaOfParameters(parameters, i, acc) ==
    IF i > Len(parameters) THEN [raised |-> FALSE, schema |-> acc]
    ELSE IF ~parameters[i].value.mapping
    THEN [raised |-> TRUE, schema |-> NoSchema]
    ELSE JsonSchemaOfParameters(parameters, i + 1,
           [acc EXCEPT
              !.properties = DictSet(@, parameters[i].key, "string"),
              !.required =
                 IF parameters[i].value.has_required
                    /\ parameters[i].value.required
                 THEN Append(@, parameters[i].key) ELSE @])

JsonTool_get_schema(tool) ==
    JsonSchemaOfParameters(tool.parameters, 1,
                           [NoSchema EXCEPT !.name = tool.name])

\* ---- JsonToolRegistry.get_tool_schemas
RECURSIVE json_get_tool_schemas(_, _, _)
json_get_tool_schemas(all, i, acc) ==
    IF i > Len(all) THEN [raised |-> FALSE, returned |-> acc]
    ELSE IF JsonTool_get_schema(all[i]).raised
    THEN json_get_tool_schemas(all, i + 1, acc)
    ELSE json_get_tool_schemas(all, i + 1,
             Append(acc, JsonTool_get_schema(all[i]).schema))

\* ---- get_json_tool_registry and the functions that fall back
\* The module's global before any construction.  instance numbers the
\* JsonToolRegistry objects that have been the global; path is the
\* registry_path the object was constructed with.
NoRegistry ==
    [constructed |-> FALSE, tools |-> <<>>, path |-> "", instance |-> 0]

\* The registry_path argument: None ("default") or a path of the caller.
RegistryPaths == {"default", "custom"}

NotObtained ==
    [call |-> "", use_json |-> TRUE, raised |-> FALSE, exc |-> "",
     registry |-> "none", load_attempted |-> FALSE, load_exc |-> "",
     status |-> "", asked |-> FALSE, path |-> "default",
     before |-> NoRegistry]

\* A get_json_tool_registry that constructs a registry whenever the path
\* asked for is not the path of the registry it holds.
get_json_tool_registry_PerPath(singleton, registry_path, loaded) ==
    IF singleton.constructed /\ singleton.path = registry_path
    THEN [exc |-> "", singleton |-> singleton, load_attempted |-> FALSE]
    ELSE IF loaded.exc = ""
    THEN [exc |-> "",
          singleton |-> [constructed |-> TRUE, tools |-> loaded.tools,
                         path |-> registry_path,
                         instance |-> singleton.instance + 1],
          load_attempted |-> TRUE]
    ELSE [exc |-> loaded.exc, singleton |-> singleton,
          load_attempted |-> TRUE]

\* get_json_tool_registry(registry_path): JsonToolRegistry(registry_path)
\* when the global is None, the global otherwise.  loaded is the outcome of
\* load_registry in the constructor.
get_json_tool_registry(singleton, registry_path, loaded) ==
    IF singleton.constructed
    THEN [exc |-> "", singleton |-> singleton, load_attempted |-> FALSE]
    ELSE IF loaded.exc = ""
    THEN [exc |-> "",
          singleton |-> [constructed |-> TRUE, tools |-> loaded.tools,
                         path |-> registry_path,
                         instance |-> singleton.instance + 1],
          load_attempted |-> TRUE]
    ELSE [exc |-> loaded.exc, singleton |-> singleton,
          load_attempted |-> TRUE]

\* The names the module media_agent.agent.base defines.
AgentBaseNames ==
    {"BaseAgent", "AgentError", "AgentConfigurationError",
     "AgentCommunicationError", "ToolExecutionError", "format_tool_error",
     "validate_tool_result", "create_agent_response", "SessionState",
     "logger"}

\* from <module> import <name>
ImportFrom(names, name) == IF name \in names THEN "" ELSE "ImportError"

\* tools.base.get_tool_registry(use_json): whatever the JSON registry
\* raises is caught; the module's own tool_registry is the fallback.
base_get_tool_registry(use_json, got) ==
    IF use_json /\ got.exc = ""
    THEN [exc |-> "", registry |-> "json"]
    ELSE [exc |-> "", registry |-> "decorator"]

\* agent.json_registry.get_tool_registry(use_json): the fallback imports
\* tool_registry from .base, the module media_agent.agent.base.
json_get_tool_registry(use_json, got) ==
    IF use_json /\ got.exc = ""
    THEN [exc |-> "", registry |-> "json"]
    ELSE IF ImportFrom(AgentBaseNames, "tool_registry") # ""
    THEN [exc |-> ImportFrom(AgentBaseNames, "tool_registry"),
          registry |-> "none"]
    ELSE [exc |-> "", registry |-> "decorator"]

\* ClaudeAgent.__init__: get_json_tool_registry, and on any exception
\* tools.base.get_tool_registry(use_json=False).
ClaudeAgent_init_registry(got) ==
    IF got.exc = ""
    THEN [exc |-> "", registry |-> "json"]
    ELSE base_get_tool_registry(FALSE, got)

\* ---- the JSON registry as a state machine
JsonInit ==
    /\ registry_file \in [status : {"ok"}, section : RegistrySections]
    /\ json_tool_registry = NoRegistry
    /\ obtained = NotObtained

\* The environment removes, corrupts or restores the resource.
FileChanges ==
    /\ \E st \in FileStatuses \ {registry_file.status} :
          registry_file' = [registry_file EXCEPT !.status = st]
    /\ UNCHANGED <<json_tool_registry, obtained>>
    /\ UNCHANGED <<chat_vars, registry_vars, context_vars, added_vars>>

\* A call that obtains a registry: call names the function, use_json and
\* path its arguments, got what get_json_tool_registry did (when it was
\* called) and res what the function returned or raised.
Obtained(call, use_json, path, asked, got, res) ==
    /\ json_tool_registry' =
          IF asked THEN got.singleton ELSE json_tool_registry
    /\ obtained' =
          [call |-> call, use_json |-> use_json, raised |-> res.exc # "",
           exc |-> res.exc, registry |-> res.registry,
           load_attempted |-> asked /\ got.load_attempted,
           load_exc |-> IF asked /\ got.load_attempted THEN got.exc ELSE "",
           status |-> registry_file.status, asked |-> asked, path |-> path,
           before |-> json_tool_registry]
    /\ UNCHANGED registry_file
    /\ UNCHANGED <<chat_vars, registry_vars, context_vars, added_vars>>

\* The resource is the file at the path asked for.
GotJson(path) ==
    get_json_tool_registry(json_tool_registry, path,
                           load_registry(registry_file, <<>>))

GetJsonToolRegistry ==
    \E path \in RegistryPaths :
       Obtained("get_json_tool_registry", TRUE, path, TRUE, GotJson(path),
                [exc |-> GotJson(path).exc,
                 registry |-> IF GotJson(path).exc = "" THEN "json"
                              ELSE "none"])

BaseGetToolRegistry ==
    \E use_json \in BOOLEAN :
       Obtained("tools.base.get_tool_registry", use_json, "default",
                use_json, GotJson("default"),
                base_get_tool_registry(use_json, GotJson("default")))

JsonGetToolRegistry ==
    \E use_json \in BOOLEAN :
       Obtained("agent.json_registry.get_tool_registry", use_json, "default",
                use_json, GotJson("default"),
                json_get_tool_registry(use_json, GotJson("default")))

ClaudeAgentInit ==
    Obtained("ClaudeAgent.__init__", TRUE, "default", TRUE,
             GotJson("default"), ClaudeAgent_init_registry(GotJson("default")))

\* JsonToolRegistry.reload_registry on the constructed registry:
\* self.tools.clear(), then load_registry().  caught: the caller catches
\* what the reload raises.
Reloaded(call, caught, loaded) ==
    /\ json_tool_registry' = [json_tool_registry EXCEPT !.tools = loaded.tools]
    /\ obtained' =
          [call |-> call, use_json |-> TRUE,
           raised |-> ~caught /\ loaded.exc # "",
           exc |-> IF caught THEN "" ELSE loaded.exc,
           registry |-> IF loaded.exc = "" THEN "json" ELSE "none",
           load_attempted |-> TRUE, load_exc |-> loaded.exc,
           status |-> registry_file.status, asked |-> FALSE,
           path |-> "default", before |-> json_tool_registry]
    /\ UNCHANGED registry_file
    /\ UNCHANGED <<chat_vars, registry_vars, context_vars, added_vars>>

ReloadRegistry ==
    /\ json_tool_registry.constructed
    /\ Reloaded("reload_registry", FALSE, load_registry(registry_file, <<>>))

\* reload_prompts_and_tools(tool_registry_path) of an agent that holds the
\* JSON registry: with a path the registry is asked for again, without one
\* the registry held is reloaded; either way what is raised is caught.
ReloadPromptsAndTools ==
    /\ json_tool_registry.constructed
    /\ \/ Obtained("reload_prompts_and_tools", TRUE, "custom", TRUE,
                   GotJson("custom"),
                   [exc |-> "",
                    registry |-> IF GotJson("custom").exc = "" THEN "json"
                                 ELSE "none"])
       \/ Reloaded("reload_prompts_and_tools", TRUE,
                   load_registry(registry_file, <<>>))

\* JsonToolRegistry.get_tool_schemas on the constructed registry.
JsonGotSchemas(res) ==
    /\ schemas' = [called |-> TRUE, raised |-> res.raised,
                   returned |-> res.returned,
                   registered |-> json_tool_registry.tools]
    /\ UNCHANGED <<tools, tool_categories, registrations, derived>>
    /\ UNCHANGED <<chat_vars, json_vars, context_vars, added_vars>>

JsonGetToolSchemas ==
    /\ json_tool_registry.constructed
    /\ schemas.registered # json_tool_registry.tools \/ ~schemas.called
    /\ JsonGotSchemas(json_get_tool_schemas(
                          get_all_tools(json_tool_registry.tools), 1, <<>>))

\* ====================================================== strategic context
\* Largest length of a list given in context_data.
MaxItems == 2

\* Values of the fields of StrategicContext and of context_data: a list of
\* items or a string.
ListValue(items) == [kind |-> "list", items |-> items, text |-> ""]
StrValue(text) == [kind |-> "str", items |-> <<>>, text |-> text]
\* A dictionary that names every field of StrategicContext: business_context
\* with the text given, each other field with the default of the dataclass.
DictValue(text) == [kind |-> "dict", items |-> <<>>, text |-> text]

Items == {"awareness", "reach"}

RECURSIVE Lists(_)
Lists(len) ==
    IF len = 0 THEN {<<>>}
    ELSE Lists(len - 1) \cup
         {Append(l, x) : l \in {m \in Lists(len - 1) : Len(m) = len - 1},
                         x \in Items}

\* The fields of StrategicContext the model keeps: a list field and a
\* string field, with the defaults of the dataclass.
ContextFields == {"objectives", "business_context"}

\* Attributes of a StrategicContext object that are no fields: the method
\* to_dict and the instance dictionary __dict__.
NonFieldAttributes == {"to_dict", "__dict__"}

\* shadowed: the non-field attributes stored on the instance by setattr.
StrategicContext ==
    [is_none |-> FALSE,
     fields |-> [f \in ContextFields |->
                   IF f = "objectives" THEN ListValue(<<>>)
                   ELSE StrValue("")],
     shadowed |-> {}]

NoContext == [StrategicContext EXCEPT !.is_none = TRUE]

\* hasattr(self.strategic_context, key): true of every attribute of the
\* object, field or not.
hasattr(ctx, key) == key \in ContextFields \cup NonFieldAttributes

\* A merge that extends the list with every incoming item.
RECURSIVE MergeList_Extend(_, _, _)
MergeList_Extend(existing_list, value, i) ==
    IF i > Len(value) THEN existing_list
    ELSE MergeList_Extend(Append(existing_list, value[i]), value, i + 1)

\* for item in value: if item not in existing_list: append
RECURSIVE MergeList(_, _, _)
MergeList(existing_list, value, i) ==
    IF i > Len(value) THEN existing_list
    ELSE IF SeqHas(existing_list, value[i])
    THEN MergeList(existing_list, value, i + 1)
    ELSE MergeList(Append(existing_list, value[i]), value, i + 1)

\* The body of the loop over context_data.items() for one key.
UpdateField(ctx, key, value) ==
    IF ~hasattr(ctx, key) THEN ctx
    ELSE IF key = "__dict__"
    THEN \* setattr(ctx, "__dict__", value) replaces the instance dictionary
         \* (value is a dictionary; any other value raises TypeError)
         IF value.kind = "dict"
         THEN [ctx EXCEPT
                 !.fields = [f \in ContextFields |->
                               IF f = "business_context"
                               THEN StrValue(value.text)
                               ELSE StrategicContext.fields[f]],
                 !.shadowed = {}]
         ELSE ctx
    ELSE IF key \in NonFieldAttributes
    THEN \* setattr(ctx, "to_dict", value) hides the method
         [ctx EXCEPT !.shadowed = @ \cup {key}]
    ELSE IF value.kind = "list" /\ ctx.fields[key].kind = "list"
    THEN [ctx EXCEPT !.fields[key] =
            ListValue(MergeList(ctx.fields[key].items, value.items, 1))]
    ELSE [ctx EXCEPT !.fields[key] = value]

RECURSIVE UpdateFields(_, _, _)
UpdateFields(ctx, data, i) ==
    IF i > Len(data) THEN ctx
    ELSE UpdateFields(UpdateField(ctx, data[i].key, data[i].value),
                      data, i + 1)

\* SessionState.update_strategic_context(context_data)
update_strategic_context(ctx, data) ==
    UpdateFields(IF ctx.is_none THEN StrategicContext ELSE ctx, data, 1)

\* Dictionaries given as context_data that name an attribute of the object
\* that is no field (the method to_dict, the instance dictionary __dict__),
\* alone or after a field.
AttributeData ==
    {<<Entry("to_dict", StrValue("spring"))>>,
     <<Entry("__dict__", DictValue("spring"))>>,
     <<Entry("objectives", ListValue(<<"awareness">>)),
       Entry("to_dict", StrValue("spring"))>>,
     <<Entry("objectives", ListValue(<<"awareness">>)),
       Entry("__dict__", DictValue("spring"))>>}

\* The dictionaries given as context_data: each of the keys objectives,
\* business_context and campaign_name (no attribute of StrategicContext)
\* absent or present with a list or a string; and the dictionaries of
\* AttributeData.
ContextData ==
    AttributeData \cup
    UNION {UNION {{a \o b \o c :
                     c \in {<<>>,
                            <<Entry("campaign_name", StrValue("spring"))>>}} :
                  b \in {<<>>} \cup
                        {<<Entry("business_context", v)>> :
                            v \in {StrValue("retail"), StrValue("b2b"),
                                   ListValue(<<"awareness">>)}}} :
           a \in {<<>>} \cup
                 {<<Entry("objectives", v)>> :
                     v \in {ListValue(l) : l \in Lists(MaxItems)}
                           \cup {StrValue("retail")}}}

ContextInit ==
    /\ strategic_context = NoContext
    /\ context_data = <<>>
    /\ context_before = NoContext

Updated(data, ctx) ==
    /\ strategic_context' = ctx
    /\ context_data' = data
    /\ context_before' = strategic_context
    /\ UNCHANGED <<chat_vars, registry_vars, json_vars, added_vars>>

UpdateStrategicContext ==
    \E data \in ContextData :
       Updated(data, update_strategic_context(strategic_context, data))

\* ======================================== workspace and media plan tools
\* The tools act on the session state; the MediaPlanPy SDK (WorkspaceManager,
\* MediaPlan) is the environment and decides the outcome of each SDK call.

\* Identifiers of media plans.
PlanIds == {"mp1", "mp2"}

\* The dictionary a tool returns: keys is the set of keys it holds; message
\* names the return statement; count and media_plans keep the fillers below
\* when their keys are absent.
NoResult ==
    [keys |-> {}, success |-> FALSE, message |-> "", count |-> 0,
     media_plans |-> <<>>]

\* create_success_result(message, **extra_data)
create_success_result(msg, extra) ==
    [NoResult EXCEPT !.keys = {"success", "message"} \cup extra,
                     !.success = TRUE, !.message = msg]

\* create_error_result(message, error, **extra_data)
create_error_result(msg, extra) ==
    [NoResult EXCEPT !.keys = {"success", "message"} \cup extra,
                     !.success = FALSE, !.message = msg]

\* What a tool call leaves behind: the dictionary returned, the session
\* state, the plans in the workspace and the SDK calls made, in order.
ToolOutcome(result, ss, plans, calls) ==
    [result |-> result, session |-> ss, plans |-> plans, sdk_calls |-> calls]

\* What the SDK does during one tool call: every call succeeds ("ok"), the
\* first call raises ("raises"), the second call raises ("raises_later"),
\* or the calls succeed and a read of the objects they returned raises
\* ("info_raises").
SdkOutcomes == {"ok", "raises", "raises_later", "info_raises"}

\* The workspaces WorkspaceManager.load can find: the plans each holds.
Workspaces == SUBSET PlanIds

\* load_workspace(session_state, workspace_path, workspace_id): args is
\* "both" when both locations are given; valid is manager.validate().
load_workspace(ss, plans, args, sdk, valid, found) ==
    IF args = "both"
    THEN ToolOutcome(create_error_result("conflicting", {"error"}),
                     ss, plans, <<>>)
    ELSE IF sdk = "raises"
    THEN ToolOutcome(create_error_result("workspace_error", {"error"}),
                     ss, plans, <<"WorkspaceManager.load">>)
    ELSE IF sdk = "raises_later"
    THEN ToolOutcome(create_error_result("workspace_error", {"error"}),
                     ss, plans,
                     <<"WorkspaceManager.load", "get_resolved_config">>)
    ELSE IF ~valid
    THEN ToolOutcome(create_error_result("invalid", {"error", "loaded_from"}),
                     ss, plans,
                     <<"WorkspaceManager.load", "get_resolved_config",
                       "validate">>)
    ELSE IF sdk = "info_raises"
    THEN ToolOutcome(create_error_result("workspace_error", {"error"}),
                     [ss EXCEPT !.workspace_manager = "workspace"], found,
                     <<"WorkspaceManager.load", "get_resolved_config",
                       "validate">>)
    ELSE ToolOutcome(create_success_result("loaded", {"workspace_info"}),
                     [ss EXCEPT !.workspace_manager = "workspace"], found,
                     <<"WorkspaceManager.load", "get_resolved_config",
                       "validate">>)

\* ---- dates as the tools receive them: text
\* A date text: digit groups (sequences of digits) joined by a separator.
DateText(sep, y, m, d) == [sep |-> sep, y |-> y, m |-> m, d |-> d]

NoDate == DateText("", <<>>, <<>>, <<>>)

\* The number a group of at most four digits writes.
DigitsValue(ds) ==
    IF Len(ds) = 0 THEN 0
    ELSE IF Len(ds) = 1 THEN ds[1]
    ELSE IF Len(ds) = 2 THEN 10 * ds[1] + ds[2]
    ELSE IF Len(ds) = 3 THEN 100 * ds[1] + 10 * ds[2] + ds[3]
    ELSE 1000 * ds[1] + 100 * ds[2] + 10 * ds[3] + ds[4]

IsLeap(y) == (y % 4 = 0 /\ y % 100 # 0) \/ y % 400 = 0

DaysIn(y, m) ==
    IF m \in {4, 6, 9, 11} THEN 30
    ELSE IF m = 2 THEN (IF IsLeap(y) THEN 29 ELSE 28)
    ELSE 31

\* datetime.strptime(text, '%Y-%m-%d').date(): %Y takes four digits, %m and
\* %d take one or two digits; ValueError when the text does not match or
\* does not name a day of the calendar.
strptime(text) ==
    LET y == DigitsValue(text.y)
        m == DigitsValue(text.m)
        d == DigitsValue(text.d)
    IN IF /\ text.sep = "-"
          /\ Len(text.y) = 4 /\ Len(text.m) \in 1..2 /\ Len(text.d) \in 1..2
          /\ y >= 1 /\ m \in 1..12 /\ d \in 1..DaysIn(y, m)
       THEN [raised |-> FALSE, date |-> <<y, m, d>>]
       ELSE [raised |-> TRUE, date |-> <<0, 0, 0>>]

\* start_dt >= end_dt on dates.
DateGeq(a, b) ==
    \/ a[1] > b[1]
    \/ a[1] = b[1] /\ a[2] > b[2]
    \/ a[1] = b[1] /\ a[2] = b[2] /\ a[3] >= b[3]

\* The date texts a caller passes.
DateTexts ==
    {DateText("-", <<2, 0, 2, 5>>, <<0, 1>>, <<0, 5>>),
     DateText("-", <<2, 0, 2, 5>>, <<1>>, <<5>>),
     DateText("-", <<2, 0, 2, 5>>, <<0, 2>>, <<2, 8>>),
     DateText("-", <<2, 0, 2, 5>>, <<0, 2>>, <<2, 9>>),
     DateText("/", <<2, 0, 2, 5>>, <<0, 1>>, <<0, 5>>),
     DateText("-", <<2, 5>>, <<0, 1>>, <<0, 5>>)}

\* The values of budget_total a caller passes.
Budgets == {0, 100}

\* The arguments of create_mediaplan_basic that the tool examines.
CreateArgs ==
    [start_date : DateTexts, end_date : DateTexts, budget_total : Budgets]

NoArgs == [start_date |-> NoDate, end_date |-> NoDate, budget_total |-> 0]

\* Changed create_mediaplan_basic: the test for a loaded workspace is gone.
create_mediaplan_basic_NoWorkspaceCheck(ss, plans, args, sdk, new_id) ==
    LET start_dt == strptime(args.start_date)
        end_dt == strptime(args.end_date)
    IN
    IF start_dt.raised \/ end_dt.raised
    THEN ToolOutcome(create_error_result("bad_date", {"error"}),
                     ss, plans, <<>>)
    ELSE IF args.budget_total <= 0
    THEN ToolOutcome(create_error_result("bad_budget", {"error"}),
                     ss, plans, <<>>)
    ELSE IF DateGeq(start_dt.date, end_dt.date)
    THEN ToolOutcome(create_error_result("bad_order", {"error"}),
                     ss, plans, <<>>)
    ELSE IF sdk \in {"raises", "raises_later"}
    THEN ToolOutcome(create_error_result("create_failed", {"error"}),
                     ss, plans, <<"MediaPlan.create">>)
    ELSE IF sdk = "info_raises"
    THEN ToolOutcome(create_error_result("create_failed", {"error"}),
                     [ss EXCEPT !.current_mediaplan = new_id], plans,
                     <<"MediaPlan.create">>)
    ELSE ToolOutcome(create_success_result("created", {"campaign_info"}),
                     [ss EXCEPT !.current_mediaplan = new_id], plans,
                     <<"MediaPlan.create">>)

\* create_mediaplan_basic: new_id is the identifier MediaPlan.create gives
\* the plan.
create_mediaplan_basic(ss, plans, args, sdk, new_id) ==
    LET start_dt == strptime(args.start_date)
        end_dt == strptime(args.end_date)
    IN
    IF ss.workspace_manager = NoWorkspace
    THEN ToolOutcome(create_error_result("no_workspace", {}), ss, plans, <<>>)
    ELSE IF start_dt.raised \/ end_dt.raised
    THEN ToolOutcome(create_error_result("bad_date", {"error"}),
                     ss, plans, <<>>)
    ELSE IF args.budget_total <= 0
    THEN ToolOutcome(create_error_result("bad_budget", {"error"}),
                     ss, plans, <<>>)
    ELSE IF DateGeq(start_dt.date, end_dt.date)
    THEN ToolOutcome(create_error_result("bad_order", {"error"}),
                     ss, plans, <<>>)
    ELSE IF sdk \in {"raises", "raises_later"}
    THEN ToolOutcome(create_error_result("create_failed", {"error"}),
                     ss, plans, <<"MediaPlan.create">>)
    ELSE IF sdk = "info_raises"
    THEN ToolOutcome(create_error_result("create_failed", {"error"}),
                     [ss EXCEPT !.current_mediaplan = new_id], plans,
                     <<"MediaPlan.create">>)
    ELSE ToolOutcome(create_success_result("created", {"campaign_info"}),
                     [ss EXCEPT !.current_mediaplan = new_id], plans,
                     <<"MediaPlan.create">>)

\* The values of line_items a caller passes: None or something that is no
\* list, the empty list, a list of line item dictionaries.
LineItemKinds == {"missing", "empty", "items"}

\* create_lineitem: current_mediaplan.create_lineitem(line_items, validate)
\* adds the items to the plan object held by the session.
create_lineitem(ss, plans, line_items, sdk) ==
    IF ss.current_mediaplan = NoMediaPlan
    THEN ToolOutcome(create_error_result("no_mediaplan", {}), ss, plans, <<>>)
    ELSE IF line_items \in {"missing", "empty"}
    THEN ToolOutcome(create_error_result("no_line_items", {}), ss, plans,
                     <<>>)
    ELSE IF sdk = "ok"
    THEN ToolOutcome(create_success_result("lineitems_created",
                                           {"lineitems_created",
                                            "created_count",
                                            "budget_summary"}),
                     ss, plans, <<"create_lineitem">>)
    ELSE ToolOutcome(create_error_result("lineitems_failed",
                                         {"error", "error_type",
                                          "suggested_action"}),
                     ss, plans, <<"create_lineitem">>)

\* save_mediaplan: current_mediaplan.save(workspace_manager, ...).
save_mediaplan(ss, plans, sdk) ==
    IF ss.current_mediaplan = NoMediaPlan
    THEN ToolOutcome(create_error_result("no_mediaplan", {}), ss, plans, <<>>)
    ELSE IF ss.workspace_manager = NoWorkspace
    THEN ToolOutcome(create_error_result("no_workspace", {}), ss, plans, <<>>)
    ELSE IF sdk \in {"raises", "raises_later"}
    THEN ToolOutcome(create_error_result("save_failed", {"error"}),
                     ss, plans, <<"save">>)
    ELSE IF sdk = "info_raises"
    THEN ToolOutcome(create_error_result("save_failed", {"error"}),
                     ss, plans \cup {ss.current_mediaplan}, <<"save">>)
    ELSE ToolOutcome(create_success_result("saved", {"save_info"}),
                     ss, plans \cup {ss.current_mediaplan}, <<"save">>)

\* load_mediaplan(session_state, media_plan_id, path): media_plan_id is
\* NoMediaPlan when neither an identifier nor a path is given;
\* MediaPlan.load raises for a plan the workspace does not hold.
load_mediaplan(ss, plans, media_plan_id, sdk) ==
    IF ss.workspace_manager = NoWorkspace
    THEN ToolOutcome(create_error_result("no_workspace", {}), ss, plans, <<>>)
    ELSE IF media_plan_id = NoMediaPlan
    THEN ToolOutcome(create_error_result("no_id", {"error"}), ss, plans, <<>>)
    ELSE IF sdk \in {"raises", "raises_later"} \/ media_plan_id \notin plans
    THEN ToolOutcome(create_error_result("load_failed", {"error"}),
                     ss, plans, <<"MediaPlan.load">>)
    ELSE IF sdk = "info_raises"
    THEN ToolOutcome(create_error_result("load_failed", {"error"}),
                     [ss EXCEPT !.current_mediaplan = media_plan_id], plans,
                     <<"MediaPlan.load">>)
    ELSE ToolOutcome(create_success_result("loaded", {"plan_info"}),
                     [ss EXCEPT !.current_mediaplan = media_plan_id], plans,
                     <<"MediaPlan.load">>)

\* A delete_mediaplan that deletes whether or not the call is confirmed.
delete_mediaplan_Unconfirmed(ss, plans, media_plan_id, confirm, sdk) ==
    IF ss.workspace_manager = NoWorkspace
    THEN ToolOutcome(create_error_result("no_workspace", {}), ss, plans, <<>>)
    ELSE IF sdk = "raises" \/ media_plan_id \notin plans
    THEN ToolOutcome(create_error_result("delete_failed", {"error"}),
                     ss, plans, <<"MediaPlan.load">>)
    ELSE ToolOutcome(create_success_result("deleted", {"deletion_info"}),
                     IF ss.current_mediaplan = media_plan_id
                     THEN [ss EXCEPT !.current_mediaplan = NoMediaPlan]
                     ELSE ss,
                     plans \ {media_plan_id}, <<"MediaPlan.load", "delete">>)

\* delete_mediaplan(session_state, media_plan_id, confirm_deletion).
delete_mediaplan(ss, plans, media_plan_id, confirm_deletion, sdk) ==
    IF ss.workspace_manager = NoWorkspace
    THEN ToolOutcome(create_error_result("no_workspace", {}), ss, plans, <<>>)
    ELSE IF ~confirm_deletion
    THEN ToolOutcome(create_error_result("confirmation_required",
                        {"requires_confirmation", "media_plan_id"}),
                     ss, plans, <<>>)
    ELSE IF sdk = "raises" \/ media_plan_id \notin plans
    THEN ToolOutcome(create_error_result("delete_failed", {"error"}),
                     ss, plans, <<"MediaPlan.load">>)
    ELSE IF sdk = "raises_later"
    THEN ToolOutcome(create_error_result("delete_failed", {"error"}),
                     ss, plans, <<"MediaPlan.load", "delete">>)
    ELSE IF sdk = "info_raises"
    THEN ToolOutcome(create_error_result("delete_failed", {"error"}),
                     IF ss.current_mediaplan = media_plan_id
                     THEN [ss EXCEPT !.current_mediaplan = NoMediaPlan]
                     ELSE ss,
                     plans \ {media_plan_id}, <<"MediaPlan.load", "delete">>)
    ELSE ToolOutcome(create_success_result("deleted", {"deletion_info"}),
                     IF ss.current_mediaplan = media_plan_id
                     THEN [ss EXCEPT !.current_mediaplan = NoMediaPlan]
                     ELSE ss,
                     plans \ {media_plan_id}, <<"MediaPlan.load", "delete">>)

\* The filters argument of list_mediaplans: None, the empty dictionary, a
\* dictionary _validate_filters accepts, one it rejects.
FilterKinds == {"none", "empty", "valid", "invalid"}

\* _validate_filters(filters)["valid"]
validate_filters(filters) == filters # "invalid"

\* The lists the SDK may return for a set of plans: every order.
Orderings(S) ==
    {q \in UNION {[1..n -> S] : n \in 0..Cardinality(S)} :
        /\ Len(q) = Cardinality(S)
        /\ \A i, j \in 1..Len(q) : i # j => q[i] # q[j]}

\* plans[:limit]; limit 0 stands for None.
Limited(listed, limit) ==
    IF limit # 0 /\ Len(listed) > limit THEN SubSeq(listed, 1, limit)
    ELSE listed

\* A list_mediaplans for which a workspace without plans is an error.
list_mediaplans_EmptyIsError(ss, plans, filters, limit, sdk, listed) ==
    IF ss.workspace_manager = NoWorkspace
    THEN ToolOutcome(create_error_result("no_workspace", {}), ss, plans, <<>>)
    ELSE IF listed = <<>>
    THEN ToolOutcome(create_error_result("list_failed", {"error"}),
                     ss, plans, <<"list_mediaplans">>)
    ELSE ToolOutcome(
             [create_success_result("found", {"media_plans", "count"})
                 EXCEPT !.count = Len(Limited(listed, limit)),
                        !.media_plans = Limited(listed, limit)],
             ss, plans, <<"list_mediaplans">>)

\* list_mediaplans(session_state, include_stats, limit, filters): listed is
\* what workspace_manager.list_mediaplans returns.
list_mediaplans(ss, plans, filters, limit, sdk, listed) ==
    IF ss.workspace_manager = NoWorkspace
    THEN ToolOutcome(create_error_result("no_workspace", {}), ss, plans, <<>>)
    ELSE IF filters \notin {"none", "empty"} /\ ~validate_filters(filters)
    THEN ToolOutcome(create_error_result("invalid_filters",
                                         {"error", "filter_examples"}),
                     ss, plans, <<>>)
    ELSE IF sdk \in {"raises", "raises_later"}
    THEN ToolOutcome(create_error_result("list_failed",
                                         {"error", "filters_applied"}),
                     ss, plans, <<"list_mediaplans">>)
    ELSE IF listed = <<>>
    THEN ToolOutcome(
             [create_success_result("none_found",
                 {"media_plans", "count"} \cup
                 (IF filters \in {"none", "empty"} THEN {}
                  ELSE {"filters_applied"}))
                 EXCEPT !.count = 0, !.media_plans = <<>>],
             ss, plans, <<"list_mediaplans">>)
    ELSE IF sdk = "info_raises"
    THEN ToolOutcome(create_error_result("list_failed",
                                         {"error", "filters_applied"}),
                     ss, plans, <<"list_mediaplans">>)
    ELSE ToolOutcome(
             [create_success_result("found",
                 {"media_plans", "count", "original_count", "has_more",
                  "filters_applied"})
                 EXCEPT !.count = Len(Limited(listed, limit)),
                        !.media_plans = Limited(listed, limit)],
             ss, plans, <<"list_mediaplans">>)

\* What workspace_manager.list_mediaplans(filters=...) may return: every
\* plan without filters, any part of the plans with filters.
Listings(plans, filters) ==
    IF filters \in {"none", "empty"} THEN Orderings(plans)
    ELSE UNION {Orderings(S) : S \in SUBSET plans}

\* ---- the tools as a state machine
NoToolCall ==
    [tool |-> "", media_plan_id |-> NoMediaPlan, confirm_deletion |-> FALSE,
     filters |-> "none", args |-> NoArgs, sdk |-> "ok", result |-> NoResult,
     sdk_calls |-> <<>>,
     session_before |-> NewSessionState(1), plans_before |-> {}]

NoSchemaVersion ==
    [called |-> FALSE, has_session |-> FALSE, workspace |-> NoWorkspace,
     config |-> "", raised |-> FALSE, returned |-> ""]

ToolsInit ==
    /\ workspace_plans = {}
    /\ tool_call = NoToolCall
    /\ schema_version = NoSchemaVersion

\* A tool was called on the session state and returned.
Called(tool, media_plan_id, confirm_deletion, filters, args, sdk, res) ==
    /\ session_state' = res.session
    /\ workspace_plans' = res.plans
    /\ tool_call' =
          [tool |-> tool, media_plan_id |-> media_plan_id,
           confirm_deletion |-> confirm_deletion, filters |-> filters,
           args |-> args, sdk |-> sdk, result |-> res.result,
           sdk_calls |-> res.sdk_calls,
           session_before |-> session_state,
           plans_before |-> workspace_plans]
    /\ UNCHANGED schema_version
    /\ UNCHANGED <<conversation_history, tool_registry, pc, turn, message,
                   use_tools, response, follow_up_response, tool_calls_made,
                   response_text, requests, responses_received, exec_log,
                   outcome, pre>>
    /\ UNCHANGED <<registry_vars, json_vars, context_vars, lifecycle_vars,
                   execute_vars>>

LoadWorkspace ==
    \E args \in {"path", "id", "both", "neither"}, sdk \in SdkOutcomes,
       valid \in BOOLEAN, found \in Workspaces :
       Called("load_workspace", NoMediaPlan, FALSE, "none", NoArgs, sdk,
              load_workspace(session_state, workspace_plans, args, sdk,
                             valid, found))

CreateMediaplanBasic ==
    \E args \in CreateArgs, sdk \in SdkOutcomes, new_id \in PlanIds :
       /\ new_id \notin workspace_plans
       /\ Called("create_mediaplan_basic", new_id, FALSE, "none", args, sdk,
                 create_mediaplan_basic(session_state, workspace_plans, args,
                                        sdk, new_id))

CreateLineitem ==
    \E line_items \in LineItemKinds, sdk \in SdkOutcomes :
       Called("create_lineitem", NoMediaPlan, FALSE, "none", NoArgs, sdk,
              create_lineitem(session_state, workspace_plans, line_items,
                              sdk))

SaveMediaplan ==
    \E sdk \in SdkOutcomes :
       Called("save_mediaplan", NoMediaPlan, FALSE, "none", NoArgs, sdk,
              save_mediaplan(session_state, workspace_plans, sdk))

LoadMediaplan ==
    \E media_plan_id \in PlanIds \cup {NoMediaPlan}, sdk \in SdkOutcomes :
       Called("load_mediaplan", media_plan_id, FALSE, "none", NoArgs, sdk,
              load_mediaplan(session_state, workspace_plans, media_plan_id,
                             sdk))

DeleteMediaplan ==
    \E media_plan_id \in PlanIds, confirm_deletion \in BOOLEAN,
       sdk \in SdkOutcomes :
       Called("delete_mediaplan", media_plan_id, confirm_deletion, "none",
              NoArgs, sdk,
              delete_mediaplan(session_state, workspace_plans, media_plan_id,
                               confirm_deletion, sdk))

ListMediaplans ==
    \E filters \in FilterKinds, limit \in 0..1, sdk \in SdkOutcomes :
    \E listed \in Listings(workspace_plans, filters) :
       Called("list_mediaplans", NoMediaPlan, FALSE, filters, NoArgs, sdk,
              list_mediaplans(session_state, workspace_plans, filters, limit,
                              sdk, listed))

\* ---- ClaudeAgent._get_preferred_schema_version
\* The schema versions a workspace configuration may prefer.
SchemaVersions == {"v1.0", "v2.0"}

\* What workspace_manager.get_resolved_config() does: it raises, or returns
\* a configuration without schema_settings, with schema_settings that is no
\* mapping, with schema_settings without preferred_version, with an empty
\* preferred_version, or with a preferred version.
ResolvedConfigs ==
    {"raises", "no_settings", "settings_not_mapping", "no_version",
     "empty_version"} \cup SchemaVersions

\* A _get_preferred_schema_version without its try/except.
get_preferred_schema_version_NoCatch(has_session, workspace, config) ==
    IF has_session /\ workspace # NoWorkspace
    THEN IF config \in {"raises", "settings_not_mapping"}
         THEN [raised |-> TRUE, returned |-> ""]
         ELSE IF config \in SchemaVersions
         THEN [raised |-> FALSE, returned |-> config]
         ELSE [raised |-> FALSE, returned |-> "v2.0"]
    ELSE [raised |-> FALSE, returned |-> "v2.0"]

\* _get_preferred_schema_version: has_session is hasattr(self,
\* 'session_state') and self.session_state.
get_preferred_schema_version(has_session, workspace, config) ==
    IF has_session /\ workspace # NoWorkspace
    THEN IF config \in {"raises", "settings_not_mapping"}
         THEN [raised |-> FALSE, returned |-> "v2.0"]
         ELSE IF config \in SchemaVersions
         THEN [raised |-> FALSE, returned |-> config]
         ELSE [raised |-> FALSE, returned |-> "v2.0"]
    ELSE [raised |-> FALSE, returned |-> "v2.0"]

GotSchemaVersion(has_session, config, res) ==
    /\ schema_version' =
          [called |-> TRUE, has_session |-> has_session,
           workspace |-> session_state.workspace_manager, config |-> config,
           raised |-> res.raised, returned |-> res.returned]
    /\ UNCHANGED <<workspace_plans, tool_call>>
    /\ UNCHANGED <<chat_vars, registry_vars, json_vars, context_vars,
                   lifecycle_vars, execute_vars>>

GetPreferredSchemaVersion ==
    \E has_session \in BOOLEAN, config \in ResolvedConfigs :
       GotSchemaVersion(has_session, config,
           get_preferred_schema_version(has_session,
               session_state.workspace_manager, config))

\* ========================================================= session resets
\* Largest number of reset calls, and of chat calls, in a session that is
\* followed through its resets.
MaxResets == 2
MaxTurns == 2

\* A recommendation stored by SessionState.add_recommendation.
Recommendation(n) == [id |-> n]

\* A strategic context that update_strategic_context has filled.
GivenContext ==
    update_strategic_context(NoContext,
        <<Entry("objectives", ListValue(<<"awareness">>)),
          Entry("business_context", StrValue("retail"))>>)

\* SessionState.reset_session keeping the identifier of the session.
SessionState_reset_session_KeepId(ss) ==
    [NewSessionState(ss.session_id + 1) EXCEPT !.session_id = ss.session_id]

\* SessionState.reset_session: self.__init__(), which draws a new session
\* identifier and sets every attribute anew.
SessionState_reset_session(ss) == NewSessionState(ss.session_id + 1)

\* BaseAgent.reset_session: self.session_state = SessionState()
BaseAgent_reset_session(ss) == NewSessionState(ss.session_id + 1)

\* A reset_conversation that leaves the history as it is.
reset_conversation_Keep(history) == history

\* ClaudeAgent.reset_conversation: self.conversation_history = []
reset_conversation(history) == <<>>

NoReset ==
    [kind |-> "", history |-> <<>>, session |-> NewSessionState(1),
     context |-> NoContext]

LifecycleInit ==
    /\ resets = 0
    /\ last_reset = NoReset

\* A reset call returned.
WasReset(kind, history, ss, ctx) ==
    /\ pc = "idle"
    /\ resets < MaxResets
    /\ resets' = resets + 1
    /\ last_reset' = [kind |-> kind, history |-> conversation_history,
                      session |-> session_state, context |-> strategic_context]
    /\ conversation_history' = history
    /\ session_state' = ss
    /\ strategic_context' = ctx
    /\ UNCHANGED <<tool_registry, pc, turn, message, use_tools, response,
                   follow_up_response, tool_calls_made, response_text,
                   requests, responses_received, exec_log, outcome, pre>>
    /\ UNCHANGED <<context_data, context_before>>
    /\ UNCHANGED <<registry_vars, json_vars, tool_vars, execute_vars>>

BaseAgentResetSession ==
    WasReset("BaseAgent.reset_session", conversation_history,
             BaseAgent_reset_session(session_state), NoContext)

SessionStateResetSession ==
    WasReset("SessionState.reset_session", conversation_history,
             SessionState_reset_session(session_state), NoContext)

ResetConversation ==
    WasReset("ClaudeAgent.reset_conversation",
             reset_conversation(conversation_history), session_state,
             strategic_context)

\* chat(message, use_tools=False) in a session followed through its resets.
SessionChat == turn < MaxTurns /\ ChatCall(FALSE)

\* ============================================ tools.base.execute_tool
\* The dictionary FunctionTool.execute or the body returned, or the
\* exception execute_tool raised.
NotExecuted ==
    [called |-> FALSE, tool_name |-> "", registered |-> FALSE, out |-> "ok",
     raised |-> "", result |-> BlankEnvelope]

\* execute_tool(tool_name, session_state, **kwargs) on the module's
\* tool_registry; out is what the body of the tool does.
execute_tool(d, tool_name, out, ss) ==
    IF ~DictHas(d, tool_name)
    THEN [raised |-> "ToolNotFoundError", result |-> BlankEnvelope,
          session |-> ss]
    ELSE LET w == Tool_execute(out, tool_name, ss) IN
         IF w.raised
         THEN [raised |-> "ToolExecutionError", result |-> BlankEnvelope,
               session |-> w.session]
         ELSE [raised |-> "", result |-> w.result, session |-> w.session]

ExecuteInit == executed = NotExecuted

Executed(tool_name, out, res) ==
    /\ executed' = [called |-> TRUE, tool_name |-> tool_name,
                    registered |-> DictHas(tools, tool_name), out |-> out,
                    raised |-> res.raised, result |-> res.result]
    /\ session_state' = res.session
    /\ UNCHANGED <<conversation_history, tool_registry, pc, turn, message,
                   use_tools, response, follow_up_response, tool_calls_made,
                   response_text, requests, responses_received, exec_log,
                   outcome, pre>>
    /\ UNCHANGED <<registry_vars, json_vars, context_vars, tool_vars,
                   lifecycle_vars>>

ExecuteTool ==
    \E tool_name \in ToolNames, out \in BodyOutcomes :
       Executed(tool_name, out,
                execute_tool(tools, tool_name, out, session_state))

\* ---------------------------------------------------------- specifications
\* An agent that is constructed and never called.
ChatIdle == ChatInit /\ tool_registry = <<"load_workspace">>

\* No configuration resource, no JSON registry.
JsonIdle ==
    /\ registry_file = [status |-> "missing", section |-> <<>>]
    /\ json_tool_registry = NoRegistry
    /\ obtained = NotObtained

\* No tool was called, no reset was made.
AddedInit == ToolsInit /\ LifecycleInit /\ ExecuteInit

\* The dispatch loop.
Init == ChatInit /\ RegistryInit /\ JsonIdle /\ ContextInit /\ AddedInit

Next ==
    \/ \E use \in BOOLEAN : ChatCall(use)
    \/ LLMResponds1
    \/ LLMFails1
    \/ LLMResponds2
    \/ LLMFails2

Spec == Init /\ [][Next]_vars

\* The tool registry of tools/base.py.
InitRegistry ==
    ChatIdle /\ RegistryInit /\ JsonIdle /\ ContextInit /\ AddedInit

NextRegistry ==
    \/ Register
    \/ GetToolSchemas

SpecRegistry == InitRegistry /\ [][NextRegistry]_vars

\* The JSON tool registry of agent/json_registry.py and the functions that
\* obtain a registry.
InitJson == ChatIdle /\ RegistryInit /\ JsonInit /\ ContextInit /\ AddedInit

NextJson ==
    \/ FileChanges
    \/ GetJsonToolRegistry
    \/ BaseGetToolRegistry
    \/ JsonGetToolRegistry
    \/ ClaudeAgentInit
    \/ ReloadRegistry
    \/ ReloadPromptsAndTools
    \/ JsonGetToolSchemas

SpecJson == InitJson /\ [][NextJson]_vars

\* The strategic context of the session state.
InitContext ==
    ChatIdle /\ RegistryInit /\ JsonIdle /\ ContextInit /\ AddedInit

NextContext == UpdateStrategicContext

SpecContext == InitContext /\ [][NextContext]_vars

\* The workspace and media plan tools called on the session state of an
\* agent.
InitTools ==
    ChatIdle /\ RegistryInit /\ JsonIdle /\ ContextInit /\ AddedInit

NextTools ==
    \/ LoadWorkspace
    \/ CreateMediaplanBasic
    \/ CreateLineitem
    \/ SaveMediaplan
    \/ LoadMediaplan
    \/ DeleteMediaplan
    \/ ListMediaplans

SpecTools == InitTools /\ [][NextTools]_vars

\* The sessions an agent is followed from: the tools have or have not
\* stored a workspace handle and a media plan, and the user has or has not
\* given a strategic context and received a recommendation.
SessionStarts ==
    {[NewSessionState(1) EXCEPT
         !.workspace_manager = IF w THEN "workspace" ELSE NoWorkspace,
         !.current_mediaplan = IF w THEN "mp1" ELSE NoMediaPlan,
         !.recommendations = IF b THEN <<Recommendation(0)>> ELSE <<>>] :
     w \in BOOLEAN, b \in BOOLEAN}

\* Text-only turns and the reset operations of the agent and of its
\* session state.
InitSession ==
    /\ conversation_history = <<>>
    /\ session_state \in SessionStarts
    /\ tool_registry = <<"load_workspace">>
    /\ pc = "idle"
    /\ turn = 0
    /\ message = <<"user", 0>>
    /\ use_tools = TRUE
    /\ response = <<>>
    /\ follow_up_response = <<>>
    /\ tool_calls_made = <<>>
    /\ response_text = EmptyText
    /\ requests = <<>>
    /\ responses_received = 0
    /\ exec_log = <<>>
    /\ outcome = NoOutcome
    /\ pre = [history |-> <<>>, session |-> session_state]
    /\ strategic_context =
          IF session_state.recommendations = <<>> THEN NoContext
          ELSE GivenContext
    /\ context_data = <<>>
    /\ context_before = NoContext
    /\ RegistryInit /\ JsonIdle /\ AddedInit

NextSession ==
    \/ SessionChat
    \/ LLMResponds1
    \/ LLMFails1
    \/ BaseAgentResetSession
    \/ SessionStateResetSession
    \/ ResetConversation

SpecSession == InitSession /\ [][NextSession]_vars

\* The agent's choice of schema version, before and after a workspace is
\* loaded.
InitSchema ==
    ChatIdle /\ RegistryInit /\ JsonIdle /\ ContextInit /\ AddedInit

NextSchema ==
    \/ LoadWorkspace
    \/ GetPreferredSchemaVersion

SpecSchema == InitSchema /\ [][NextSchema]_vars

\* tools.base.execute_tool on the module's tool registry.
InitExecute ==
    ChatIdle /\ RegistryInit /\ JsonIdle /\ ContextInit /\ AddedInit

NextExecute ==
    \/ Register
    \/ ExecuteTool

SpecExecute == InitExecute /\ [][NextExecute]_vars

\* The type derived for a parameter annotation (Tool.get_schema).
InitTypes ==
    ChatIdle /\ RegistryInit /\ JsonIdle /\ ContextInit /\ AddedInit

NextTypes == DeriveType

SpecTypes == InitTypes /\ [][NextTypes]_vars

\* ================================================================== claims
\* Helpers of the claims' formulas.
ReceivedFirst == responses_received >= 1
TurnReturned == pc = "idle" /\ outcome.kind = "returned"
TurnRaised == pc = "idle" /\ outcome.kind = "raised"
\* Position of the turn's user message in the wire-level history.
Base == Len(pre.history) + 1
LastTurn == conversation_history[Len(conversation_history)]
ExecIds == {exec_log[k].tool_use_id : k \in 1..Len(exec_log)}
BlockIds(content) == {content[k].id : k \in {j \in 1..Len(content) :
                                              content[j].type = "tool_use"}}
IsErrorTurn(e) ==
    /\ e.role = "assistant"
    /\ e.kind = "text"
    /\ \E x \in LLMErrors : e.text = << <<x, 0>> >>

\* C1: when the first LLM response of a turn holds no tool_use block, the
\* turn has ended after exactly one LLM request: chat returned, no second
\* request was issued and no tool was executed.
C1_TextOnlyEndsAfterOneRequest ==
    (ReceivedFirst /\ ToolUses(response) = <<>>) =>
        /\ TurnReturned
        /\ Len(requests) = 1
        /\ responses_received = 1
        /\ exec_log = <<>>

C1_Witness ==
    /\ TurnReturned
    /\ responses_received = 1
    /\ Len(response) = MaxBlocks
    /\ ToolUses(response) = <<>>

\* C2: when the first LLM response of a turn holds a tool_use block, exactly
\* one more LLM request is issued (two in the turn, never more), and only
\* the tool_use blocks of the first response are executed: none named by
\* the follow-up response is.
C2_ToolRoundIssuesOneFollowUp ==
    /\ Len(requests) <= 2
    /\ (ReceivedFirst /\ ToolUses(response) # <<>>) =>
          /\ Len(requests) = 2
          /\ pc \in {"request2", "idle"}
          /\ pc = "idle" => outcome.kind # "none"
          /\ Len(exec_log) = Len(ToolUses(response))
          /\ ExecIds = BlockIds(response)
          /\ ExecIds \cap BlockIds(follow_up_response) = {}

C2_Witness ==
    /\ TurnReturned
    /\ responses_received = 2
    /\ ToolUses(follow_up_response) # <<>>
    /\ Len(requests) = 2

\* C3: after a response whose tool_use blocks are A, B, C in that order, the
\* wire-level history holds, right after the turn's user message, the
\* assistant turn with the raw response content and then one tool-result
\* turn per invocation, in that order, each with the tool_use_id of its
\* invocation; the turn adds no other tool-result turn.
C3_ToolResultsInOrder ==
    (ReceivedFirst /\ ToolUses(response) # <<>>) =>
        LET uses == ToolUses(response) IN
        /\ Len(conversation_history) >= Base + 1 + Len(uses)
        /\ conversation_history[Base + 1].role = "assistant"
        /\ conversation_history[Base + 1].kind = "content"
        /\ conversation_history[Base + 1].blocks = response
        /\ \A k \in 1..Len(uses) :
              /\ conversation_history[Base + 1 + k].role = "user"
              /\ conversation_history[Base + 1 + k].kind = "tool_result"
              /\ conversation_history[Base + 1 + k].tool_use_id = uses[k].id
        /\ \A k \in (Base + 2 + Len(uses))..Len(conversation_history) :
              conversation_history[k].kind # "tool_result"

C3_Witness ==
    /\ TurnReturned
    /\ Len(ToolUses(response)) = 3
    /\ conversation_history[Base + 4].tool_use_id = response[3].id

\* C4: every invocation made through the registry returned a dictionary
\* with a boolean success key and did not raise, whatever the tool body did
\* (returned or raised) and whatever the argument map: neither the tool
\* wrapper (Tool.execute / JsonTool.execute) nor _execute_tool let an
\* exception out.
C4_EnvelopeTotality ==
    \A k \in 1..Len(exec_log) :
        /\ ~exec_log[k].raised
        /\ ~exec_log[k].wrapper_raised
        /\ "success" \in exec_log[k].result.keys
        /\ exec_log[k].result.success \in BOOLEAN

C4_Witness ==
    /\ \E k \in 1..Len(exec_log) :
          exec_log[k].called /\ exec_log[k].out = "raise"
    /\ \E k \in 1..Len(exec_log) : exec_log[k].input = "reserved"

\* C5: an invocation that names a tool absent from the registry returns
\* success = false with the list of the names registered at that time; no
\* tool body is executed and the session state is unchanged.
C5_MissingToolEnvelope ==
    \A k \in 1..Len(exec_log) :
        ~exec_log[k].registered =>
            /\ exec_log[k].result.success = FALSE
            /\ "available_tools" \in exec_log[k].result.keys
            /\ exec_log[k].result.available_tools = tool_registry
            /\ ~exec_log[k].called
            /\ exec_log[k].session_after = exec_log[k].session_before

C5_Witness ==
    \E k \in 1..Len(exec_log) :
        /\ ~exec_log[k].registered
        /\ k > 1
        /\ exec_log[k].session_before.workspace_manager # NoWorkspace

\* C6 (as claimed): when a tool body raises, the envelope _execute_tool
\* returns has success = false and carries the exception's message, the
\* exception's type name and the tool name.
C6_RaisedBodyCarriesTypeAndName ==
    \A k \in 1..Len(exec_log) :
        (exec_log[k].called /\ exec_log[k].out = "raise") =>
            /\ exec_log[k].result.success = FALSE
            /\ exec_log[k].result.error = "boom"
            /\ "error_type" \in exec_log[k].result.keys
            /\ exec_log[k].result.error_type = "ValueError"
            /\ "tool_name" \in exec_log[k].result.keys
            /\ exec_log[k].result.tool_name = exec_log[k].tool_name

\* C7: when the result of invocation k cannot be serialized, the turn goes
\* on: the k-th tool-result turn is in the history, its content is the
\* minimal envelope (the success flag of the original result, a string
\* message, a note that serialization failed), and the follow-up request is
\* issued.
C7_SerializationFallback ==
    \A k \in 1..Len(tool_calls_made) :
        (ReceivedFirst /\ tool_calls_made[k].result.payload = "object") =>
            LET t == conversation_history[Base + 1 + k]
                r == tool_calls_made[k].result
            IN
            /\ t.kind = "tool_result"
            /\ t.tool_use_id = tool_calls_made[k].tool_use_id
            /\ t.content.keys = {"success", "message", "error"}
            /\ t.content.success = r.success
            /\ t.content.message =
                  (IF "message" \in r.keys THEN r.message
                   ELSE "Serialization error")
            /\ t.content.error = "JSON serialization failed"
            /\ t.content.payload = "none"
            /\ Len(requests) = 2
            /\ outcome.kind = "raised" => responses_received = 1

C7_Witness ==
    /\ pc = "request2"
    /\ \E k \in 1..Len(tool_calls_made) :
          /\ tool_calls_made[k].result.payload = "object"
          /\ tool_calls_made[k].result.success
    /\ \E k \in 1..Len(tool_calls_made) :
          /\ tool_calls_made[k].result.payload = "object"
          /\ ~tool_calls_made[k].result.success

\* C8: a turn whose LLM request failed has appended exactly one assistant
\* turn holding the error message to the history as it was when the request
\* was sent, and chat raised AgentCommunicationError; the agent is then
\* idle again, and a later turn on the same agent runs as any turn does
\* (it returns the final text of its own responses).
C8_FailureIsFatalForTheTurnOnly ==
    /\ outcome.kind = "raised" =>
          /\ pc = "idle"
          /\ outcome.exc = "AgentCommunicationError"
          /\ Len(conversation_history) = Len(requests[Len(requests)]) + 1
          /\ \A k \in 1..Len(requests[Len(requests)]) :
                conversation_history[k] = requests[Len(requests)][k]
          /\ IsErrorTurn(LastTurn)
    /\ (TurnReturned /\ \E k \in 1..Len(pre.history) :
                            IsErrorTurn(pre.history[k])) =>
          /\ Len(requests) = (IF ToolUses(response) = <<>> THEN 1 ELSE 2)
          /\ response_text =
                (IF ToolUses(response) = <<>> THEN ExtractText(response, 1)
                 ELSE ExtractText(follow_up_response, 1))
          /\ outcome.text =
                (IF response_text = EmptyText THEN Placeholder
                 ELSE response_text)
          /\ ~IsErrorTurn(LastTurn)

C8_Witness ==
    /\ TurnReturned
    /\ responses_received = 2
    /\ response_text # EmptyText
    /\ \E k \in 1..Len(pre.history) : IsErrorTurn(pre.history[k])

\* C9: a chat call that returned with a non-empty final text appended
\* exactly one record to the session's conversation_history, holding the
\* user's message and the final text, which is the text chat returned; a
\* chat call that returned with an empty final text, or that raised,
\* appended nothing.
C9_SessionLogRecord ==
    LET log == session_state.conversation_history
        log0 == pre.session.conversation_history
    IN
    /\ (TurnReturned /\ response_text # EmptyText) =>
          /\ Len(log) = Len(log0) + 1
          /\ \A k \in 1..Len(log0) : log[k] = log0[k]
          /\ log[Len(log)].user = message
          /\ log[Len(log)].agent = response_text
          /\ log[Len(log)].agent = outcome.text
    /\ (TurnReturned /\ response_text = EmptyText) => log = log0
    /\ TurnRaised => log = log0
    /\ pc # "idle" => log = log0

C9_Witness ==
    /\ TurnReturned
    /\ response_text # EmptyText
    /\ Len(session_state.conversation_history) = 2
    /\ responses_received = 2

\* C10 (as claimed): after every chat call that returned, the last entry of
\* the wire-level history is an assistant turn.
C10_LastTurnIsAssistant ==
    TurnReturned => LastTurn.role = "assistant"

\* C10 (amended): after a chat call that returned with a non-empty final
\* text, the last entry of the wire-level history is the assistant turn
\* holding that text; after one that returned with an empty final text no
\* assistant turn was committed: the last entry is the user's message (no
\* tool) or the last tool-result turn (tool round).
C10_NonEmptyFinalTextCommitted ==
    /\ (TurnReturned /\ response_text # EmptyText) =>
          /\ LastTurn.role = "assistant"
          /\ LastTurn.kind = "text"
          /\ LastTurn.text = response_text
    /\ (TurnReturned /\ response_text = EmptyText) =>
          /\ LastTurn.role = "user"
          /\ LastTurn.kind =
                (IF ToolUses(response) = <<>> THEN "text" ELSE "tool_result")

C10_Witness ==
    /\ TurnReturned
    /\ responses_received = 2
    /\ response_text # EmptyText
    /\ LastTurn.text = response_text

\* C11: the session's user-facing conversation_history only grows: every
\* step of chat, tool invocations included, leaves the records already in
\* the log in place and unchanged (the log before the step is a prefix of
\* the log after it), and the records are in the order in which their
\* turns completed (record k belongs to an earlier chat call than record
\* k + 1, and was stamped no later).
IsPrefix(s, t) ==
    /\ Len(s) <= Len(t)
    /\ \A k \in 1..Len(s) : t[k] = s[k]

InTurnOrder(log) ==
    \A k \in 1..Len(log) : \A j \in 1..Len(log) :
        k < j => /\ log[k].user[2] < log[j].user[2]
                 /\ log[k].timestamp <= log[j].timestamp

C11_SessionLogAppendOnly ==
    /\ [][IsPrefix(session_state.conversation_history,
                  session_state.conversation_history')]_vars
    /\ [](InTurnOrder(session_state.conversation_history))

\* Two turns completed and logged, one of them a tool round whose tool
\* changed the session state.
C11_Witness ==
    /\ pc = "idle"
    /\ Len(session_state.conversation_history) = 2
    /\ session_state.workspace_manager # NoWorkspace
    /\ session_state.conversation_history[1].user = <<"user", 1>>
    /\ session_state.conversation_history[2].user = <<"user", 2>>

\* ---------------------------------------------------------- tool registry
\* Helpers of the registry claims.
NoDuplicates(seq) ==
    \A j \in 1..Len(seq) : \A k \in 1..Len(seq) : seq[j] = seq[k] => j = k

Occurrences(seq, x) == Cardinality({k \in 1..Len(seq) : seq[k] = x})

\* C12: registering a tool name again replaces the descriptor stored under
\* that name and creates no duplicate.  After every register call the
\* descriptor just given is the one stored under its name, the name occurs
\* once in the list of all tools, the other names keep their descriptors,
\* and a name that was there before adds no entry; at all times no name
\* occurs twice among the tools or twice in a category list.
C12_RegisterStep ==
    registrations' = registrations + 1 =>
       LET all == get_all_tools(tools')
           given == CHOOSE t \in {all[k] : k \in 1..Len(all)} :
                       t.description = registrations'
       IN /\ \E k \in 1..Len(all) : all[k].description = registrations'
          /\ DictGet(tools', given.name) = given
          /\ Occurrences(DictKeys(tools'), given.name) = 1
          /\ Occurrences([k \in 1..Len(all) |-> all[k].name], given.name) = 1
          /\ DictHas(tools, given.name) => Len(tools') = Len(tools)
          /\ \A k \in 1..Len(tools) :
                tools[k].key # given.name =>
                   /\ DictHas(tools', tools[k].key)
                   /\ DictGet(tools', tools[k].key) = tools[k].value

C12_RegisterTwiceOverwrites ==
    /\ [][C12_RegisterStep]_vars
    /\ [](/\ NoDuplicates(DictKeys(tools))
          /\ \A k \in 1..Len(tool_categories) :
                NoDuplicates(tool_categories[k].value))

\* The same name registered three times, twice under the same category:
\* one stored descriptor, the last one.
C12_Witness ==
    /\ registrations = 3
    /\ Len(tools) = 1
    /\ tools[1].value.description = 3
    /\ Len(tool_categories) = 2
    /\ \A k \in 1..Len(tool_categories) :
          tool_categories[k].value = <<tools[1].key>>

\* C13: after any sequence of registry operations every tool name listed in
\* a category list is a key of the registry's tools mapping.
C13_NoDanglingCategoryReference ==
    \A k \in 1..Len(tool_categories) :
       \A j \in 1..Len(tool_categories[k].value) :
          DictHas(tools, tool_categories[k].value[j])

\* Two names, one of them listed in both categories, and schemas were
\* generated.
C13_Witness ==
    /\ Len(tools) = 2
    /\ Len(tool_categories) = 2
    /\ Len(tool_categories[1].value) + Len(tool_categories[2].value) = 3
    /\ schemas.called

\* ----------------------------------------------------------------- schemas
\* Helpers of the schema claims.
SeqSet(seq) == {seq[k] : k \in 1..Len(seq)}

ReservedNames == {"session_state", "kwargs"}

\* The parameters a function declares, the injected session_state and the
\* variadic keyword parameter (kwargs under any name) excluded.
DeclaredParameters(function) ==
    {p \in SeqSet(function.signature) :
        p.name \notin ReservedNames /\ p.kind # "VAR_KEYWORD"}

\* The function behind an emitted schema: that of the tool the registry
\* held under the schema's name when the schemas were generated.
FunctionOf(schema) == DictGet(schemas.registered, schema.name).function

\* C14 (as claimed), for the schemas the JSON registry emits: a parameter is
\* in the required list of a tool's schema if and only if the tool's
\* function declares it without a default value, session_state and kwargs
\* excluded.
C14_RequiredIffNoDefault ==
    schemas.called =>
       \A k \in 1..Len(schemas.returned) :
          LET schema == schemas.returned[k]
              declared == DeclaredParameters(FunctionOf(schema))
          IN /\ \A p \in declared :
                   SeqHas(schema.required, p.name) <=> ~p.has_default
             /\ SeqSet(schema.required) \subseteq {p.name : p \in declared}

\* C15 (as claimed), for the schemas the JSON registry emits: neither
\* session_state, nor kwargs, nor the name of a variadic keyword parameter
\* of the tool's function is among the properties or the required list.
C15_ReservedNamesNeverEmitted ==
    schemas.called =>
       \A k \in 1..Len(schemas.returned) :
          LET schema == schemas.returned[k]
              hidden == ReservedNames \cup
                        {p.name : p \in
                           {q \in SeqSet(FunctionOf(schema).signature) :
                               q.kind = "VAR_KEYWORD"}}
          IN /\ SeqSet(DictKeys(schema.properties)) \cap hidden = {}
             /\ SeqSet(schema.required) \cap hidden = {}

\* C16: get_tool_schemas never raises; it returns, in registration order,
\* the schemas of the registered tools whose schema generation does not
\* throw, so the number of schemas is the number of registered tools minus
\* the number of tools whose schema generation failed.
FailingTools(all) == {k \in 1..Len(all) : Tool_get_schema(all[k]).raised}

C16_SchemasSkipFailingTools ==
    schemas.called =>
       LET all == get_all_tools(schemas.registered)
           good == SelectSeq(all, LAMBDA t : ~Tool_get_schema(t).raised)
       IN /\ ~schemas.raised
          /\ Len(schemas.returned) = Len(all) - Cardinality(FailingTools(all))
          /\ schemas.returned =
                [k \in 1..Len(good) |-> Tool_get_schema(good[k]).schema]

\* Two registered tools; the schema generation of the first one throws and
\* the schema of the second one is returned.
C16_Witness ==
    /\ schemas.called
    /\ schemas.registered = tools
    /\ Len(tools) = 2
    /\ FailingTools(get_all_tools(tools)) = {1}
    /\ Len(schemas.returned) = 1
    /\ schemas.returned[1].name = tools[2].key

\* ------------------------------------------------------ JSON tool registry
\* Helpers of the JSON registry claims.
LoadFailed == obtained.load_attempted /\ obtained.load_exc # ""

FallbackCalls ==
    {"tools.base.get_tool_registry", "agent.json_registry.get_tool_registry",
     "ClaudeAgent.__init__"}

\* C17 (as claimed): when the JSON registry cannot be loaded, obtaining the
\* registry through tools.base.get_tool_registry, through
\* agent.json_registry.get_tool_registry(use_json=True) or during ClaudeAgent
\* construction does not raise and yields the decorator-based registry.
C17_LoadFailureFallsBack ==
    (obtained.call \in FallbackCalls /\ obtained.use_json /\ LoadFailed) =>
       /\ ~obtained.raised
       /\ obtained.registry = "decorator"

\* The tool entries of the resource, category after category, each with the
\* label of its category.
RECURSIVE AllEntries(_, _)
AllEntries(section, i) ==
    IF i > Len(section) THEN <<>>
    ELSE [k \in 1..Len(section[i].value.entries) |->
            [name |-> section[i].value.entries[k].key,
             config |-> section[i].value.entries[k].value,
             category |-> section[i].key]]
         \o AllEntries(section, i + 1)

\* The dynamic binding of an entry succeeds: the entry is a mapping that
\* names a module that can be imported and a function the module holds.
BindingSucceeds(config) ==
    /\ config.mapping
    /\ config.module_path /\ config.function_name
    /\ config.importable /\ config.has_function

WellFormedCategories(section) ==
    \A k \in 1..Len(section) : section[k].value.mapping

\* C18: a load or a reload of the JSON registry from a readable resource
\* whose categories are mappings completes, skips the entries whose dynamic
\* binding fails and registers every other entry: afterwards the registry
\* holds exactly the names of the entries whose binding succeeded, each
\* bound as its last such entry says.
C18_BindingFailureSkipsOnlyThatTool ==
    (obtained.load_attempted /\ obtained.status = "ok"
       /\ WellFormedCategories(registry_file.section)) =>
       LET entries == AllEntries(registry_file.section, 1)
           bound == {k \in 1..Len(entries) :
                        BindingSucceeds(entries[k].config)}
           held == json_tool_registry.tools
       IN /\ obtained.load_exc = ""
          /\ json_tool_registry.constructed
          /\ NoDuplicates(DictKeys(held))
          /\ SeqSet(DictKeys(held)) = {entries[k].name : k \in bound}
          /\ \A k \in bound :
                (\A j \in bound : entries[j].name = entries[k].name => j <= k)
                => DictGet(held, entries[k].name) =
                      JsonTool(entries[k].name, entries[k].config,
                               entries[k].category)

\* A reload of a resource whose first entry fails to bind: the entry after
\* it and the entry of the second category are registered.
C18_Witness ==
    /\ obtained.call = "reload_registry"
    /\ obtained.status = "ok"
    /\ Len(registry_file.section) = 2
    /\ WellFormedCategories(registry_file.section)
    /\ Len(registry_file.section[1].value.entries) = 2
    /\ ~BindingSucceeds(registry_file.section[1].value.entries[1].value)
    /\ DictKeys(json_tool_registry.tools) =
          <<"list_mediaplans", "load_workspace">>

\* The resource without its categories that are no mapping.
WellFormedPart(section) == SelectSeq(section, LAMBDA c : c.value.mapping)

\* C19 (as claimed): a malformed entry of the resource (a tool entry, or a
\* category whose value is no mapping of tool entries) is skipped:
\* the construction of JsonToolRegistry from a readable resource completes
\* and registers the well-formed entries.
C19_MalformedEntriesSkipped ==
    (obtained.call = "get_json_tool_registry" /\ obtained.load_attempted
       /\ obtained.status = "ok") =>
       LET entries == AllEntries(WellFormedPart(registry_file.section), 1)
       IN /\ ~obtained.raised
          /\ json_tool_registry.constructed
          /\ SeqSet(DictKeys(json_tool_registry.tools)) =
                {entries[k].name :
                    k \in {j \in 1..Len(entries) :
                              BindingSucceeds(entries[j].config)}}

\* ------------------------------------------------------ strategic context
\* The items of incoming, from position i on, that are neither in existing
\* nor earlier in incoming: each once, in incoming order.
RECURSIVE NovelItems(_, _, _)
NovelItems(existing, incoming, i) ==
    IF i > Len(incoming) THEN <<>>
    ELSE IF incoming[i] \in SeqSet(existing)
            \/ \E j \in 1..(i - 1) : incoming[j] = incoming[i]
    THEN NovelItems(existing, incoming, i + 1)
    ELSE <<incoming[i]>> \o NovelItems(existing, incoming, i + 1)

\* The context the call started from: a new StrategicContext when there was
\* none.
ContextBefore ==
    IF context_before.is_none THEN StrategicContext ELSE context_before

\* C20: update_strategic_context merges.  For a field that holds a list
\* and is given a list, the result is the existing list, in its order,
\* followed by the incoming items that were not present, each once and in
\* incoming order; in every other case the field is overwritten by the
\* incoming value; a field that context_data does not name is unchanged.
\* (For context_data that does not name __dict__: that key replaces the
\* fields wholesale, see C40.)
C20_MergeListsOverwriteScalars ==
    (context_data # <<>> /\ ~DictHas(context_data, "__dict__")) =>
       /\ ~strategic_context.is_none
       /\ \A f \in ContextFields :
             IF DictHas(context_data, f)
             THEN LET value == DictGet(context_data, f)
                      old == ContextBefore.fields[f]
                  IN IF value.kind = "list" /\ old.kind = "list"
                     THEN strategic_context.fields[f] =
                             ListValue(old.items \o
                                       NovelItems(old.items, value.items, 1))
                     ELSE strategic_context.fields[f] = value
             ELSE strategic_context.fields[f] = ContextBefore.fields[f]

\* objectives [awareness] merged with [awareness, reach] yields
\* [awareness, reach], and business_context is overwritten.
C20_Witness ==
    /\ ContextBefore.fields["objectives"] = ListValue(<<"awareness">>)
    /\ ContextBefore.fields["business_context"] = StrValue("retail")
    /\ DictHas(context_data, "objectives")
    /\ DictGet(context_data, "objectives") =
          ListValue(<<"awareness", "reach">>)
    /\ DictHas(context_data, "business_context")
    /\ DictGet(context_data, "business_context") = StrValue("b2b")
    /\ strategic_context.fields["objectives"] =
          ListValue(<<"awareness", "reach">>)
    /\ strategic_context.fields["business_context"] = StrValue("b2b")

\* ---- the workspace and media plan tools
\* The last tool call was delete_mediaplan without confirm_deletion=True.
UnconfirmedDelete ==
    tool_call.tool = "delete_mediaplan" /\ ~tool_call.confirm_deletion

CurrentBefore == tool_call.session_before.current_mediaplan
WorkspaceBefore == tool_call.session_before.workspace_manager

C22_CurrentPlanFrameEffect ==
    /\ (tool_call.tool \in {"create_mediaplan_basic", "load_mediaplan"}
        /\ tool_call.result.success)
          => session_state.current_mediaplan = tool_call.media_plan_id
    /\ (tool_call.tool = "delete_mediaplan" /\ tool_call.result.success)
          => session_state.current_mediaplan =
                IF CurrentBefore = tool_call.media_plan_id THEN NoMediaPlan
                ELSE CurrentBefore
    /\ (tool_call.tool \in {"create_mediaplan_basic", "load_mediaplan",
                            "delete_mediaplan"}
        /\ ~tool_call.result.success)
          => session_state.current_mediaplan = CurrentBefore

\* The last tool call listed the plans of a loaded workspace that holds none.
ListedEmptyWorkspace ==
    /\ tool_call.tool = "list_mediaplans"
    /\ WorkspaceBefore # NoWorkspace
    /\ tool_call.plans_before = {}

ReturnedNoPlans ==
    /\ tool_call.result.success
    /\ {"count", "media_plans"} \subseteq tool_call.result.keys
    /\ tool_call.result.count = 0
    /\ tool_call.result.media_plans = <<>>

SessionResetStep ==
    /\ resets' = resets + 1
    /\ last_reset'.kind \in {"BaseAgent.reset_session",
                             "SessionState.reset_session"}

\* The session holds what the tools, the user and the turns stored in it.
Populated(ss, ctx) ==
    /\ ss.conversation_history # <<>>
    /\ ss.recommendations # <<>>
    /\ ss.current_mediaplan # NoMediaPlan
    /\ ss.workspace_manager # NoWorkspace
    /\ ~ctx.is_none

\* C24: resetting the session (BaseAgent.reset_session or
\* SessionState.reset_session) yields a session with a new session id, an
\* empty conversation_history, no strategic context, no recommendations, no
\* current media plan and no workspace handle.
C24_ResetSessionStartsAfresh ==
    [][SessionResetStep =>
          /\ session_state'.session_id # session_state.session_id
          /\ session_state'.conversation_history = <<>>
          /\ strategic_context' = NoContext
          /\ session_state'.recommendations = <<>>
          /\ session_state'.current_mediaplan = NoMediaPlan
          /\ session_state'.workspace_manager = NoWorkspace]_vars

\* A populated session was reset through the agent and is empty now.
C24_Witness ==
    /\ last_reset.kind = "BaseAgent.reset_session"
    /\ Populated(last_reset.session, last_reset.context)
    /\ session_state = NewSessionState(last_reset.session.session_id + 1)
    /\ strategic_context = NoContext

\* C26: tools.base.execute_tool raises ToolNotFoundError when the tool name
\* is not registered, and raises ToolExecutionError when the body of a
\* registered tool raises.
C26_ExecuteToolRaises ==
    executed.called =>
       /\ ~executed.registered => executed.raised = "ToolNotFoundError"
       /\ (executed.registered /\ executed.out = "raise")
             => executed.raised = "ToolExecutionError"

\* The step is a call of ClaudeAgent.reset_conversation.
ConversationResetStep ==
    /\ resets' = resets + 1
    /\ last_reset'.kind = "ClaudeAgent.reset_conversation"

\* C27: ClaudeAgent.reset_conversation empties the wire-level conversation
\* history and leaves the session state unchanged (session id, user-facing
\* conversation log, strategic context, current media plan, workspace
\* handle).
C27_ResetConversationKeepsSession ==
    [][ConversationResetStep =>
          /\ conversation_history' = <<>>
          /\ session_state' = session_state
          /\ strategic_context' = strategic_context]_vars

\* A history of several messages was emptied; the populated session is as
\* it was.
C27_Witness ==
    /\ last_reset.kind = "ClaudeAgent.reset_conversation"
    /\ Len(last_reset.history) >= 2
    /\ conversation_history = <<>>
    /\ Populated(session_state, strategic_context)
    /\ session_state = last_reset.session

\* C28: _get_preferred_schema_version never raises; it returns the loaded
\* workspace's schema_settings.preferred_version when a workspace is loaded
\* and that value is set, and "v2.0" in every other case (no session state,
\* no workspace, value missing, configuration lookup fails).
C28_PreferredVersionOrDefault ==
    schema_version.called =>
       /\ ~schema_version.raised
       /\ schema_version.returned =
             IF /\ schema_version.has_session
                /\ schema_version.workspace # NoWorkspace
                /\ schema_version.config \in SchemaVersions
             THEN schema_version.config
             ELSE "v2.0"

\* The lookup of the configuration of a loaded workspace raised and the
\* default was returned.
C28_Witness ==
    /\ schema_version.called
    /\ schema_version.has_session
    /\ schema_version.workspace # NoWorkspace
    /\ schema_version.config = "raises"
    /\ ~schema_version.raised
    /\ schema_version.returned = "v2.0"

\* ---- the JSON registry as a singleton
\* C25: the JSON registry is a lazily constructed process-wide singleton:
\* the first successful get_json_tool_registry call constructs it, every
\* later call returns that same instance whatever registry_path it is given,
\* and a call whose construction fails leaves the singleton unset, so that
\* the next call attempts the construction again.
C25_LazySingleton ==
    obtained.asked =>
       IF obtained.before.constructed
       THEN /\ ~obtained.load_attempted
            /\ json_tool_registry = obtained.before
       ELSE /\ obtained.load_attempted
            /\ IF obtained.load_exc = ""
               THEN /\ json_tool_registry.constructed
                    /\ json_tool_registry.instance = 1
                    /\ json_tool_registry.path = obtained.path
               ELSE json_tool_registry = NoRegistry

\* The registry constructed from the default path was asked for again with
\* another path: no load, the same instance.
C25_Witness ==
    /\ obtained.asked
    /\ obtained.call = "get_json_tool_registry"
    /\ obtained.before.constructed
    /\ obtained.path = "custom"
    /\ json_tool_registry.path = "default"
    /\ json_tool_registry.instance = 1
    /\ ~obtained.load_attempted

\* ---- the tool round
\* The tool-result turns of the turn's invocations, as the second request
\* sent them.
SentResult(k) == requests[2][Base + 1 + k]

\* C29: within a turn every tool invocation of the first LLM response is
\* executed exactly once, in the order in which the invocations appear, and
\* all of them are complete (their results are in the messages) when the
\* second LLM request is issued; an invocation that returns success=false
\* (missing tool, or a tool body that raised) does not keep the later
\* invocations of the response from being executed and does not make chat
\* raise: chat raises only when an LLM request fails.
C29_EachInvocationOnceInOrder ==
    ReceivedFirst =>
        LET uses == ToolUses(response) IN
        /\ Len(exec_log) = Len(uses)
        /\ \A k \in 1..Len(uses) :
              /\ exec_log[k].tool_use_id = uses[k].id
              /\ exec_log[k].tool_name = uses[k].name
              /\ ~exec_log[k].raised
        /\ uses # <<>> =>
              /\ Len(requests) = 2
              /\ Len(requests[2]) = Base + 1 + Len(uses)
              /\ \A k \in 1..Len(uses) :
                    /\ SentResult(k).kind = "tool_result"
                    /\ SentResult(k).tool_use_id = uses[k].id
                    /\ SentResult(k).content =
                          SerializeResult(exec_log[k].result)
        /\ TurnRaised =>
              /\ IsErrorTurn(LastTurn)
              /\ responses_received = 1 => uses # <<>>

\* Three invocations in one response: the first names a missing tool, the
\* body of the second raised, the third ran and succeeded; chat returned.
C29_Witness ==
    /\ TurnReturned
    /\ Len(exec_log) = 3
    /\ ~exec_log[1].registered /\ ~exec_log[1].result.success
    /\ exec_log[2].called /\ exec_log[2].out = "raise"
    /\ ~exec_log[2].result.success
    /\ exec_log[3].called /\ exec_log[3].result.success
    /\ Len(requests) = 2

\* The tokens of a text that come from the first response of a turn.
FirstResponseTokens(text) ==
    {k \in 1..Len(text) : text[k][1] = "r1"}

\* C30: in a tool round the final text of the turn is the concatenation, in
\* order, of the text segments of the second LLM response only; the text
\* segments that came with the tool invocations in the first response are
\* not part of the returned text nor of the record appended to the session
\* log.
C30_FinalTextIsFollowUpText ==
    (TurnReturned /\ responses_received = 2) =>
        LET follow_up_text == ExtractText(follow_up_response, 1)
            log == session_state.conversation_history
        IN
        /\ response_text = follow_up_text
        /\ outcome.text = ReturnedText(follow_up_text)
        /\ FirstResponseTokens(outcome.text) = {}
        /\ IF follow_up_text # EmptyText
           THEN /\ Len(log) = Len(pre.session.conversation_history) + 1
                /\ log[Len(log)].agent = follow_up_text
                /\ FirstResponseTokens(log[Len(log)].agent) = {}
           ELSE log = pre.session.conversation_history

\* A first response with text around a tool invocation, a follow-up
\* response of two text segments: the final text is those two segments.
C30_Witness ==
    /\ TurnReturned
    /\ responses_received = 2
    /\ Len(response) = 3
    /\ response[1].type = "text" /\ response[3].type = "text"
    /\ response_text = << <<"r2", 1>>, <<"r2", 2>> >>
    /\ outcome.text = response_text
    /\ LET log == session_state.conversation_history
       IN log # <<>> /\ log[Len(log)].agent = response_text
\* ---------------------------------------------------------------------- C31
\* C31: every chat call that has ended either returned a non-empty string,
\* the final text or the fixed placeholder when the final text is empty, or
\* raised AgentCommunicationError; no other outcome exists.
C31_ReturnsTextOrRaisesCommunicationError ==
    (pc = "idle" /\ turn > 0) =>
        \/ /\ outcome.kind = "returned"
           /\ outcome.text # EmptyText
           /\ outcome.text =
                 IF response_text # EmptyText THEN response_text
                 ELSE Placeholder
        \/ /\ outcome.kind = "raised"
           /\ outcome.exc = "AgentCommunicationError"

\* A turn whose tools ran and whose follow-up response held no text returned
\* the placeholder.
C31_Witness ==
    /\ pc = "idle"
    /\ turn > 0
    /\ outcome.kind = "returned"
    /\ response_text = EmptyText
    /\ outcome.text = Placeholder
    /\ tool_calls_made # <<>>


\* ---------------------------------------------------------------------- C32
\* The last tool call was load_workspace.
LoadedWorkspace == tool_call.tool = "load_workspace"

\* The call replaced the workspace handle of the session.
HandleReplaced ==
    \/ session_state.workspace_manager # WorkspaceBefore
    \/ workspace_plans # tool_call.plans_before

\* C32: load_workspace replaces the workspace handle of the session only
\* when the SDK load and the validation of the workspace both succeeded, and
\* every call that returns success=false leaves the workspace handle and the
\* current media plan unchanged.
C32_LoadWorkspaceFrameEffect ==
    LoadedWorkspace =>
       /\ HandleReplaced =>
             /\ tool_call.sdk_calls =
                   <<"WorkspaceManager.load", "get_resolved_config",
                     "validate">>
             /\ tool_call.result.message # "invalid"
       /\ ~tool_call.result.success =>
             /\ ~HandleReplaced
             /\ session_state.current_mediaplan = CurrentBefore


\* ---------------------------------------------------------------------- C33
\* The last tool call was create_mediaplan_basic.
CreateCalled == tool_call.tool = "create_mediaplan_basic"

\* The text is written YYYY-MM-DD: four, two and two digits joined by "-".
IsYYYYMMDD(text) ==
    /\ text.sep = "-"
    /\ Len(text.y) = 4 /\ Len(text.m) = 2 /\ Len(text.d) = 2

\* The start date is not strictly before the end date.
NotBefore(start_date, end_date) ==
    /\ ~strptime(start_date).raised
    /\ ~strptime(end_date).raised
    /\ DateGeq(strptime(start_date).date, strptime(end_date).date)

\* The call returned success=false, made no SDK call and left the session
\* as it was.
RejectedUntouched ==
    /\ ~tool_call.result.success
    /\ tool_call.sdk_calls = <<>>
    /\ session_state = tool_call.session_before
    /\ workspace_plans = tool_call.plans_before

\* C33: create_mediaplan_basic returns success=false without calling the
\* SDK and without changing the current media plan when no workspace is
\* loaded, when a date is not written YYYY-MM-DD, when budget_total <= 0, or
\* when the start date is not strictly before the end date.
C33_CreateRejectsBadArguments ==
    (/\ CreateCalled
     /\ \/ WorkspaceBefore = NoWorkspace
        \/ ~IsYYYYMMDD(tool_call.args.start_date)
        \/ ~IsYYYYMMDD(tool_call.args.end_date)
        \/ tool_call.args.budget_total <= 0
        \/ NotBefore(tool_call.args.start_date, tool_call.args.end_date))
       => RejectedUntouched


\* ---------------------------------------------------------------------- C34
JsonTypeNames ==
    {"string", "integer", "number", "boolean", "array", "object"}

\* The name the claim gives to each of the six classes.
NamedType(t) ==
    CASE t = Class("str") -> "string"
      [] t = Class("int") -> "integer"
      [] t = Class("float") -> "number"
      [] t = Class("bool") -> "boolean"
      [] t = Class("list") -> "array"
      [] t = Class("dict") -> "object"
      [] OTHER -> "string"

SixClasses == {Class(n) : n \in {"str", "int", "float", "bool", "list", "dict"}}

\* Optional[T] is Union[T, None].
IsOptional(t) == IsUnion(t) /\ Len(t.args) = 2 /\ t.args[2] = NoneType

\* C34: a parameter annotated str, int, float, bool, list or dict gets the
\* type string, integer, number, boolean, array or object; Optional[T] gets
\* the type T gets; every other annotation and every unannotated parameter
\* gets string; the type is always one of the six names.
C34_TypeMapping ==
    derived.called =>
       LET t == derived.annotation IN
       /\ derived.json_type \in JsonTypeNames
       /\ t \in SixClasses => derived.json_type = NamedType(t)
       /\ IsOptional(t) => derived.json_type = PropertyType(t.args[1])
       /\ (t \notin SixClasses /\ ~IsOptional(t))
             => derived.json_type = "string"


\* ---------------------------------------------------------------------- C35
\* The positions of the tool-result turns of the history that answer id.
ResultsOf(id) ==
    {j \in 1..Len(conversation_history) :
        /\ conversation_history[j].kind = "tool_result"
        /\ conversation_history[j].tool_use_id = id}

\* The tool_use blocks held by the assistant turn at position i.
ToolUsesAt(i) ==
    IF conversation_history[i].role = "assistant"
       /\ conversation_history[i].kind = "content"
    THEN ToolUses(conversation_history[i].blocks)
    ELSE <<>>

\* C35: after every chat call, returned or raised, each tool_use block held
\* by an assistant turn of the wire-level history is answered by exactly one
\* tool-result turn with its tool_use_id, placed after that assistant turn
\* and before any later assistant turn; and every tool-result turn answers a
\* tool_use block of an earlier assistant turn.
C35_ToolUsesAreAnswered ==
    pc = "idle" =>
       /\ \A i \in 1..Len(conversation_history) :
          \A k \in 1..Len(ToolUsesAt(i)) :
             LET answers == ResultsOf(ToolUsesAt(i)[k].id) IN
             /\ Cardinality(answers) = 1
             /\ \A j \in answers :
                   /\ j > i
                   /\ \A n \in (i + 1)..j :
                         conversation_history[n].role # "assistant"
       /\ \A j \in 1..Len(conversation_history) :
             conversation_history[j].kind = "tool_result" =>
                \E i \in 1..(j - 1) : \E k \in 1..Len(ToolUsesAt(i)) :
                   ToolUsesAt(i)[k].id = conversation_history[j].tool_use_id

\* A chat call that raised at the follow-up request after two invocations:
\* both are answered before the error turn.
C35_Witness ==
    /\ TurnRaised
    /\ responses_received = 1
    /\ Len(tool_calls_made) = 2
    /\ Len(ToolUsesAt(Base + 1)) = 2
    /\ conversation_history[Len(conversation_history)].role = "assistant"


\* ---------------------------------------------------------------------- C36
\* The last call reloaded the constructed registry and the reload failed on
\* a missing or malformed file.
ReloadFailed ==
    /\ obtained.call \in {"reload_registry", "reload_prompts_and_tools"}
    /\ ~obtained.asked
    /\ obtained.load_attempted
    /\ obtained.load_exc \in {"FileNotFoundError", "JSONDecodeError"}

\* C36: when JsonToolRegistry.reload_registry fails because the registry
\* file is missing or is not valid JSON, the registry still holds the tools
\* it held before the reload was attempted.
C36_FailedReloadKeepsTools ==
    ReloadFailed => json_tool_registry.tools = obtained.before.tools


\* ---------------------------------------------------------------------- C37
\* The last reset was BaseAgent.reset_session and chat has been called since,
\* for the first time.
ChatAfterAgentReset ==
    /\ last_reset.kind = "BaseAgent.reset_session"
    /\ requests # <<>>
    /\ pre.session.session_id > last_reset.session.session_id
    /\ pre.history = last_reset.history

\* C37: after BaseAgent.reset_session on a ClaudeAgent, the messages sent to
\* the LLM by the next chat call hold no message from before the reset.
C37_ResetSessionForgetsWireHistory ==
    ChatAfterAgentReset =>
       \A k \in 1..Len(requests[1]) :
       \A n \in 1..Len(last_reset.history) :
          requests[1][k] # last_reset.history[n]


\* ---------------------------------------------------------------------- C38
\* The sum of the values of a dictionary, from entry i on.
RECURSIVE SumValues(_, _)
SumValues(d, i) ==
    IF i > Len(d) THEN 0 ELSE d[i].value + SumValues(d, i + 1)

\* The category lists that hold the name.
CategoriesOf(name) ==
    {k \in 1..Len(tool_categories) : SeqHas(tool_categories[k].value, name)}

\* C38: after any sequence of register calls, re-registrations under another
\* category included, every registered tool name is in exactly one category
\* list, so the per-category counts of get_tool_info sum to total_tools.
C38_OneCategoryPerTool ==
    LET info == get_tool_info(tools, tool_categories) IN
    /\ \A k \in 1..Len(tools) : Cardinality(CategoriesOf(tools[k].key)) = 1
    /\ SumValues(info.categories, 1) = info.total_tools


\* ---------------------------------------------------------------------- C39
\* C39: after any sequence of tool invocations on a fresh session state
\* (load_workspace, create_mediaplan_basic, load_mediaplan, save_mediaplan,
\* delete_mediaplan, create_lineitem, list_mediaplans) a current media plan
\* is set only if a workspace handle is set, and no tool call clears a
\* workspace handle that was set.
C39_PlanOnlyWithWorkspace ==
    /\ session_state.current_mediaplan # NoMediaPlan
          => session_state.workspace_manager # NoWorkspace
    /\ (tool_call.tool # "" /\ WorkspaceBefore # NoWorkspace)
          => session_state.workspace_manager # NoWorkspace

\* Line items were added to the current plan of a loaded workspace.
C39_Witness ==
    /\ tool_call.tool = "create_lineitem"
    /\ tool_call.result.success
    /\ session_state.current_mediaplan # NoMediaPlan
    /\ session_state.workspace_manager # NoWorkspace
    /\ WorkspaceBefore # NoWorkspace


\* ---------------------------------------------------------------------- C40
\* Every key of the last context_data is no field of StrategicContext.
NamesNoField ==
    /\ context_data # <<>>
    /\ \A k \in 1..Len(context_data) : context_data[k].key \notin ContextFields

\* C40: update_strategic_context is idempotent and ignores unknown keys:
\* applying the same context_data once more leaves the strategic context as
\* it is after the first application, and a key that is not a field of
\* StrategicContext changes no field.
C40_IdempotentAndIgnoresUnknownKeys ==
    context_data # <<>> =>
       /\ update_strategic_context(strategic_context, context_data)
             = strategic_context
       /\ NamesNoField => strategic_context.fields = ContextBefore.fields


====
